---- MODULE Spec2Model ----
(***************************************************************************)
(* Model of runtime/queries/metricsview_aggregation.go: the aggregation    *)
(* SQL builder (buildMetricsAggregationSQL, createPivotSQL) and the        *)
(* execution of MetricsViewAggregation.Resolve on its three paths          *)
(* (plain query, native DuckDB pivot, manual Druid pivot through a local   *)
(* embedded DuckDB).                                                       *)
(*                                                                         *)
(* SQL text is modelled clause by clause: every clause of the Sprintf      *)
(* template is a sequence of tokens.  Go pointers are options: <<>> is     *)
(* nil and <<v>> is a pointer to v.                                        *)
(***************************************************************************)
EXTENDS Integers, Sequences, FiniteSets, TLC

(* ------------------------------------------------------------------ *)
(* Bounds.  maxPivotCells is 1_000_000 and batchSize is 10000 in the   *)
(* source; the model scales both down so that the streaming loop       *)
(* crosses a batch boundary and the cell budget within a few rows.     *)
(* The scaled values keep both orders the source can be in:            *)
(* maxPivotCells \div cols >= batchSize (few columns) and              *)
(* maxPivotCells \div cols < batchSize (many columns).                 *)
(* ------------------------------------------------------------------ *)
maxPivotCells == 8

batchSize == 3

\* Rows the base aggregation can produce beyond the cell budget.
ExtraRows == 2

\* ------------------------------------------------------------ values

DialectDuckDB == "duckdb"
DialectDruid == "druid"
DialectOther == "clickhouse"

TimeGrainUnspecified == "TIME_GRAIN_UNSPECIFIED"
BuiltinUnspecified == "BUILTIN_MEASURE_UNSPECIFIED"
BuiltinCount == "BUILTIN_MEASURE_COUNT"
BuiltinCountDistinct == "BUILTIN_MEASURE_COUNT_DISTINCT"

\* error values returned by Resolve ("nil" is Go's nil error)
ErrNil == "nil"
ErrOLAP == "olap acquire failed"
ErrDialect == "not available for dialect"
ErrNoTimeDim == "metrics view does not have a time dimension"
ErrFilterAndWhere == "both filter and where is provided"
ErrNoCols == "error building query: no dimensions or measures specified"
ErrBuiltinArgs == "error building query: builtin measure expects 1 argument"
ErrBuiltinEmpty == "error building query: builtin measure expects non-empty string argument"
ErrBuiltinUnknown == "error building query: unknown builtin measure"
ErrDimNotFound == "error building query: dimension not found"
ErrMeasureNotFound == "error building query: measure not found"
ErrExpression == "error building query: invalid expression"
ErrTimestampDialect == "error building query: unsupported dialect"
ErrOffsetPivot == "error building query: offset not supported for pivot queries"
ErrCellsNative == "PIVOT cells count exceeded"
ErrCellsDruid == "PIVOT cells count limit exceeded"
ErrBackend == "backend error"
ErrCtx == "context canceled"
ErrLocal == "local duckdb error"

ValidationErrors ==
  { ErrDialect, ErrNoTimeDim, ErrFilterAndWhere, ErrNoCols, ErrBuiltinArgs,
    ErrBuiltinEmpty, ErrBuiltinUnknown, ErrDimNotFound, ErrMeasureNotFound,
    ErrExpression, ErrTimestampDialect, ErrOffsetPivot }

\* ------------------------------------------------------------ helpers

Min(a, b) == IF a < b THEN a ELSE b

\* strings.Join(parts, sep) on token sequences
RECURSIVE Join(_, _)
Join(parts, sep) ==
  IF parts = <<>> THEN <<>>
  ELSE IF Len(parts) = 1 THEN Head(parts)
  ELSE Head(parts) \o <<sep>> \o Join(Tail(parts), sep)

safeName(n) == <<"\"", n, "\"">>

\* ---------------------------------------------- the metrics view spec

\* The view every request of the model runs against: two declared
\* dimensions, two declared measures; the time dimension is an input.
MetricsView(timeDim) ==
  [ Table |-> "ad_bids",
    TimeDimension |-> timeDim,
    Dimensions |-> {"domain", "publisher"},
    Measures |-> {"impressions", "volume"} ]

\* A table name that contains a double quote.
QuotedTable == "ad\"bids"

\* A table name as the sequence of its characters.
Chars(table) ==
  IF table = QuotedTable THEN <<"a", "d", "\"", "b", "i", "d", "s">>
  ELSE <<"a", "d", "_", "b", "i", "d", "s">>

isTimeRangeNil(tr) == tr = <<>>

\* ---------------------------------- collaborators outside this file

\* convertFilterToExpression: the legacy filter becomes a structured
\* expression over the same condition.
convertFilterToExpression(f) ==
  [ cond |-> f.cond, args |-> f.args, ok |-> TRUE ]

\* buildExpression: an expression compiles to one SQL fragment and its
\* bound arguments, or fails on an unresolvable field.
buildExpression(mv, e) ==
  IF ~e.ok THEN [ clause |-> <<>>, args |-> <<>>, err |-> ErrExpression ]
  ELSE [ clause |-> IF e.cond = "" THEN <<>> ELSE <<e.cond>>,
         args |-> e.args, err |-> ErrNil ]

\* timeRangeClause: "" for a nil range, else the interval predicate over
\* the time column, its bounds appended to the arguments.
timeRangeClause(tr, mv) ==
  IF isTimeRangeNil(tr) THEN [ clause |-> <<>>, args |-> <<>> ]
  ELSE [ clause |-> <<"AND">> \o safeName(mv.TimeDimension) \o <<">=", "?", "AND">>
                      \o safeName(mv.TimeDimension) \o <<"<", "?">>,
         args |-> <<tr[1].start, tr[1].end>> ]

metricsViewDimension(mv, name) == name \in mv.Dimensions

metricsViewMeasureExpression(mv, name) == name \in mv.Measures


\* dimensionSelect: the SELECT entry of a plain dimension and its unnest
\* clause (no dimension of the modelled view is an array).
dimensionSelect(mv, name) ==
  [ sel |-> safeName(name), unnest |-> <<>> ]

convertToDateTruncSpecifier(grain) ==
  CASE grain = "TIME_GRAIN_HOUR" -> "'hour'"
    [] grain = "TIME_GRAIN_DAY" -> "'day'"
    [] OTHER -> "'month'"

convertToDruidTimeFloorSpecifier(grain) ==
  CASE grain = "TIME_GRAIN_HOUR" -> "'PT1H'"
    [] grain = "TIME_GRAIN_DAY" -> "'P1D'"
    [] OTHER -> "'P1M'"

\* ------------------------------------------------- the SQL builder

cols(q) == Len(q.Dimensions) + Len(q.Measures)

\* Variant: the timezone is written into the expression as a literal
\* instead of being bound to a placeholder.
buildTimestampExpr_inline(mv, dim, dialect) ==
  LET known == dim.Name = mv.TimeDimension \/ metricsViewDimension(mv, dim.Name)
      col == safeName(dim.Name)
      utc == dim.TimeZone = "" \/ dim.TimeZone = "UTC"
      trunc == <<"date_trunc", "(", convertToDateTruncSpecifier(dim.TimeGrain), ",">>
                 \o col \o <<")">>
  IN  IF ~known THEN [ expr |-> <<>>, args |-> <<>>, err |-> ErrDimNotFound ]
      ELSE IF dialect = DialectDuckDB THEN
        IF utc THEN [ expr |-> trunc, args |-> <<>>, err |-> ErrNil ]
        ELSE [ expr |-> <<"timezone", "(", dim.TimeZone, ",", "date_trunc", "(",
                          convertToDateTruncSpecifier(dim.TimeGrain), ",",
                          "timezone", "(", dim.TimeZone, ",">> \o col
                          \o <<"::TIMESTAMPTZ", ")", ")", ")">>,
               args |-> <<>>, err |-> ErrNil ]
      ELSE IF dialect = DialectDruid THEN
        IF utc THEN [ expr |-> trunc, args |-> <<>>, err |-> ErrNil ]
        ELSE [ expr |-> <<"time_floor", "(">> \o col
                          \o <<",", convertToDruidTimeFloorSpecifier(dim.TimeGrain),
                               ",", "null", ",", "CAST", "(", dim.TimeZone, "AS",
                               "VARCHAR", ")", ")", ")">>,
               args |-> <<>>, err |-> ErrNil ]
      ELSE [ expr |-> <<>>, args |-> <<>>, err |-> ErrTimestampDialect ]

\* buildTimestampExpr: the time-bucket expression of a dimension with a
\* time grain, its arguments, and an error for an unknown column or
\* dialect.
buildTimestampExpr(mv, dim, dialect) ==
  LET known == dim.Name = mv.TimeDimension \/ metricsViewDimension(mv, dim.Name)
      col == safeName(dim.Name)
      utc == dim.TimeZone = "" \/ dim.TimeZone = "UTC"
      trunc == <<"date_trunc", "(", convertToDateTruncSpecifier(dim.TimeGrain), ",">>
                 \o col \o <<")">>
  IN  IF ~known THEN [ expr |-> <<>>, args |-> <<>>, err |-> ErrDimNotFound ]
      ELSE IF dialect = DialectDuckDB THEN
        IF utc THEN [ expr |-> trunc, args |-> <<>>, err |-> ErrNil ]
        ELSE [ expr |-> <<"timezone", "(", "?", ",", "date_trunc", "(",
                          convertToDateTruncSpecifier(dim.TimeGrain), ",",
                          "timezone", "(", "?", ",">> \o col
                          \o <<"::TIMESTAMPTZ", ")", ")", ")">>,
               args |-> <<dim.TimeZone, dim.TimeZone>>, err |-> ErrNil ]
      ELSE IF dialect = DialectDruid THEN
        IF utc THEN [ expr |-> trunc, args |-> <<>>, err |-> ErrNil ]
        ELSE [ expr |-> <<"time_floor", "(">> \o col
                          \o <<",", convertToDruidTimeFloorSpecifier(dim.TimeGrain),
                               ",", "null", ",", "CAST", "(", "?", "AS", "VARCHAR",
                               ")", ")", ")">>,
               args |-> <<dim.TimeZone>>, err |-> ErrNil ]
      ELSE [ expr |-> <<>>, args |-> <<>>, err |-> ErrTimestampDialect ]

\* Variant: the ordinal is taken before the entry is appended.
groupOrdinal_beforeAppend(selectCols) == Len(selectCols) - 1

\* fmt.Sprintf("%d", len(selectCols)) right after the dimension's entry
\* was appended: the GROUP BY ordinal of that entry.
groupOrdinal(selectCols) == Len(selectCols)

\* The loop over q.Dimensions: SELECT entries, GROUP BY ordinals and
\* time-bucket arguments accumulated so far; stops at the first error.
RECURSIVE dimensionLoop(_, _, _, _)
dimensionLoop(mv, dims, dialect, acc) ==
  IF dims = <<>> \/ acc.err # ErrNil THEN acc
  ELSE
    LET d == Head(dims)
    IN  IF d.TimeGrain = TimeGrainUnspecified THEN
          IF ~metricsViewDimension(mv, d.Name)
          THEN [ acc EXCEPT !.err = ErrDimNotFound ]
          ELSE dimensionLoop(mv, Tail(dims), dialect,
                 [ acc EXCEPT
                     !.selectCols = Append(@, dimensionSelect(mv, d.Name).sel),
                     !.groupCols = Append(@, groupOrdinal(
                        Append(acc.selectCols, dimensionSelect(mv, d.Name).sel))) ])
        ELSE
          LET t == buildTimestampExpr(mv, d, dialect)
          IN  IF t.err # ErrNil THEN [ acc EXCEPT !.err = t.err ]
              ELSE dimensionLoop(mv, Tail(dims), dialect,
                     [ acc EXCEPT
                         !.selectCols = Append(@, t.expr \o <<"as">> \o safeName(d.Name)),
                         !.groupCols = Append(@, groupOrdinal(
                            Append(acc.selectCols, t.expr \o <<"as">> \o safeName(d.Name)))),
                         !.args = @ \o t.args ])

\* The loop over q.Measures.
RECURSIVE measureLoop(_, _, _)
measureLoop(mv, ms, acc) ==
  IF ms = <<>> \/ acc.err # ErrNil THEN acc
  ELSE
    LET m == Head(ms)
        sn == safeName(m.Name)
    IN  IF m.BuiltinMeasure = BuiltinUnspecified THEN
          IF ~metricsViewMeasureExpression(mv, m.Name)
          THEN [ acc EXCEPT !.err = ErrMeasureNotFound ]
          ELSE measureLoop(mv, Tail(ms),
                 [ acc EXCEPT !.selectCols =
                     Append(@, <<"expr", "(", m.Name, ")", "as">> \o sn) ])
        ELSE IF m.BuiltinMeasure = BuiltinCount THEN
          measureLoop(mv, Tail(ms),
            [ acc EXCEPT !.selectCols = Append(@, <<"COUNT", "(", "*", ")", "as">> \o sn) ])
        ELSE IF m.BuiltinMeasure = BuiltinCountDistinct THEN
          IF Len(m.BuiltinMeasureArgs) # 1 THEN [ acc EXCEPT !.err = ErrBuiltinArgs ]
          ELSE IF m.BuiltinMeasureArgs[1] = "" THEN [ acc EXCEPT !.err = ErrBuiltinEmpty ]
          ELSE measureLoop(mv, Tail(ms),
                 [ acc EXCEPT !.selectCols =
                     Append(@, <<"COUNT", "(", "DISTINCT">>
                                 \o safeName(m.BuiltinMeasureArgs[1])
                                 \o <<")", "as">> \o sn) ])
        ELSE [ acc EXCEPT !.err = ErrBuiltinUnknown ]


\* The page size an explicit limit of 0 is replaced by.
defaultLimit == 100

\* Variant: an explicit 0 is kept as the limit.
normalizeLimit_keepZero(limit) == limit

\* if q.Limit != nil { if *q.Limit == 0 { *q.Limit = 100 } }: the value
\* q.Limit points to afterwards.
normalizeLimit(limit) ==
  IF limit # <<>> /\ limit[1] = 0 THEN <<defaultLimit>> ELSE limit

\* Variant: the budget itself as the limit, without the probe row.
pivotBaseLimit_noProbeRow(q) == maxPivotCells \div cols(q)

\* The LIMIT the pivot branch puts on the base aggregation.
pivotBaseLimit(q) == (maxPivotCells \div cols(q)) + 1

\* Variant: the override applies only when the request set no limit.
baseLimitClause_keepOwn(q, lim) ==
  IF Len(q.PivotOn) > 0 /\ lim = <<>> THEN <<pivotBaseLimit(q)>> ELSE lim

\* The LIMIT clause of the base aggregation: the pivot branch overrides
\* whatever the request's limit (lim, already normalised) produced.
baseLimitClause(q, lim) ==
  IF Len(q.PivotOn) > 0 THEN <<pivotBaseLimit(q)>> ELSE lim

\* Variant: the offset check is missing.
pivotOffsetRejected_never(q) == FALSE

\* The pivot branch's offset check.
pivotOffsetRejected(q) == q.Offset # 0

\* The row-filter conjunct of the WHERE clause.
rowFilterClause(policy) ==
  IF policy # <<>> /\ policy[1].RowFilter # ""
  THEN <<"AND", "(", policy[1].RowFilter, ")">>
  ELSE <<>>

\* Variant: the row filter is added only to a WHERE clause that already
\* has a time-range or WHERE conjunct.
buildWhereClause_filterNeedsWhere(q, mv, policy) ==
  LET tr == IF mv.TimeDimension # "" THEN timeRangeClause(q.TimeRange, mv)
            ELSE [ clause |-> <<>>, args |-> <<>> ]
      w == IF q.Where # <<>> THEN buildExpression(mv, q.Where[1])
           ELSE [ clause |-> <<>>, args |-> <<>>, err |-> ErrNil ]
      wc == IF w.clause # <<>> THEN <<"AND">> \o w.clause ELSE <<>>
      body == IF tr.clause \o wc # <<>>
              THEN tr.clause \o wc \o rowFilterClause(policy)
              ELSE <<>>
  IN  [ clause |-> IF Len(body) > 0 THEN <<"WHERE", "1=1">> \o body ELSE <<>>,
        args |-> tr.args \o w.args,
        timeArgs |-> tr.args,
        whereArgs |-> w.args,
        err |-> w.err ]

\* The WHERE clause: time range, WHERE expression and row filter behind
\* the 1=1 sentinel, with the arguments the first two bind.
buildWhereClause(q, mv, policy) ==
  LET tr == IF mv.TimeDimension # "" THEN timeRangeClause(q.TimeRange, mv)
            ELSE [ clause |-> <<>>, args |-> <<>> ]
      w == IF q.Where # <<>> THEN buildExpression(mv, q.Where[1])
           ELSE [ clause |-> <<>>, args |-> <<>>, err |-> ErrNil ]
      wc == IF w.clause # <<>> THEN <<"AND">> \o w.clause ELSE <<>>
      body == tr.clause \o wc \o rowFilterClause(policy)
  IN  [ clause |-> IF Len(body) > 0 THEN <<"WHERE", "1=1">> \o body ELSE <<>>,
        args |-> tr.args \o w.args,
        timeArgs |-> tr.args,
        whereArgs |-> w.args,
        err |-> w.err ]

\* Variant: the HAVING keyword is emitted for every non-nil expression.
buildHavingClause_alwaysKeyword(q, mv) ==
  LET h == IF q.Having # <<>> THEN buildExpression(mv, q.Having[1])
           ELSE [ clause |-> <<>>, args |-> <<>>, err |-> ErrNil ]
  IN  [ clause |-> IF q.Having # <<>> THEN <<"HAVING">> \o h.clause ELSE <<>>,
        args |-> h.args,
        err |-> h.err ]

\* The HAVING clause and its arguments.
buildHavingClause(q, mv) ==
  LET h == IF q.Having # <<>> THEN buildExpression(mv, q.Having[1])
           ELSE [ clause |-> <<>>, args |-> <<>>, err |-> ErrNil ]
  IN  [ clause |-> IF h.clause # <<>> THEN <<"HAVING">> \o h.clause ELSE <<>>,
        args |-> h.args,
        err |-> h.err ]

NoSQL ==
  [ selectCols |-> <<>>, select |-> <<>>, from |-> <<>>, where |-> <<>>,
    group |-> <<>>, having |-> <<>>, limit |-> <<>>, offset |-> <<>> ]

\* Variant: the HAVING arguments are appended before the WHERE ones.
builderArgs_havingFirst(dimArgs, timeArgs, whereArgs, havingArgs) ==
  dimArgs \o timeArgs \o havingArgs \o whereArgs

\* The argument list in the order the builder appends to it: time-bucket
\* arguments in the dimension loop, the time range's, the WHERE
\* expression's, the HAVING expression's.
builderArgs(dimArgs, timeArgs, whereArgs, havingArgs) ==
  dimArgs \o timeArgs \o whereArgs \o havingArgs

\* buildMetricsAggregationSQL: the compiled base query (clause by clause),
\* its arguments, the error, and the value q.Limit points to afterwards
\* (the builder normalises it in place).  q.Sort is not modelled.
buildMetricsAggregationSQL(q, mv, dialect, policy) ==
  LET fail(e, lim) == [ sql |-> NoSQL, args |-> <<>>, err |-> e, Limit |-> lim ]
      start == [ selectCols |-> <<>>, groupCols |-> <<>>, args |-> <<>>, err |-> ErrNil ]
      ds == dimensionLoop(mv, q.Dimensions, dialect, start)
      ms == measureLoop(mv, q.Measures, ds)
      wh == buildWhereClause(q, mv, policy)
      hv == buildHavingClause(q, mv)
      lim == normalizeLimit(q.Limit)
      pivot == Len(q.PivotOn) > 0
      limitClause == baseLimitClause(q, lim)
  IN  IF Len(q.Dimensions) = 0 /\ Len(q.Measures) = 0 THEN fail(ErrNoCols, q.Limit)
      ELSE IF ds.err # ErrNil THEN fail(ds.err, q.Limit)
      ELSE IF ms.err # ErrNil THEN fail(ms.err, q.Limit)
      ELSE IF wh.err # ErrNil THEN fail(wh.err, q.Limit)
      ELSE IF hv.err # ErrNil THEN fail(hv.err, q.Limit)
      ELSE IF pivot /\ pivotOffsetRejected(q) THEN fail(ErrOffsetPivot, lim)
      ELSE [ sql |-> [ selectCols |-> ms.selectCols,
                       select |-> Join(ms.selectCols, ","),
                       from |-> safeName(mv.Table),
                       where |-> wh.clause,
                       group |-> ms.groupCols,
                       having |-> hv.clause,
                       limit |-> limitClause,
                       offset |-> IF pivot THEN <<>> ELSE <<q.Offset>> ],
             args |-> builderArgs(ms.args, wh.timeArgs, wh.whereArgs, hv.args),
             err |-> ErrNil,
             Limit |-> lim ]

\* createPivotSQL: the PIVOT statement over the temporary table.
createPivotSQL(q, temporaryTableName) ==
  LET measureCol(i) == <<"LAST", "(">> \o safeName(q.Measures[i].Name)
                         \o <<")", "as">> \o safeName(q.Measures[i].Name)
  IN  [ table |-> temporaryTableName,
        on |-> q.PivotOn,
        using |-> Join([i \in 1..Len(q.Measures) |-> measureCol(i)], ","),
        limit |-> normalizeLimit(q.Limit),
        offset |-> <<q.Offset>> ]


\* ------------------------------------------------ the backend's rows

\* The condition of the modelled WHERE expression / legacy filter and the
\* text of the modelled security row filter.
WhereCond == "domain IN (?)"
RowFilterText == "domain = 'yahoo.com'"

\* A source row is characterised by the predicates it satisfies: the time
\* range (t), the WHERE condition (w) and the security row filter (f).
RowClasses == [ t : BOOLEAN, w : BOOLEAN, f : BOOLEAN ]

\* The conjuncts of a token sequence, split at its top-level ANDs.
RECURSIVE Conjuncts(_, _)
Conjuncts(tokens, cur) ==
  IF tokens = <<>> THEN (IF cur = <<>> THEN <<>> ELSE <<cur>>)
  ELSE IF Head(tokens) = "AND" THEN <<cur>> \o Conjuncts(Tail(tokens), <<>>)
  ELSE Conjuncts(Tail(tokens), Append(cur, Head(tokens)))

\* Whether a row of class c satisfies one conjunct.
Satisfies(c, conj) ==
  LET atom == IF Len(conj) = 3 /\ conj[1] = "(" /\ conj[3] = ")" THEN <<conj[2]>> ELSE conj
  IN  CASE atom = <<"1=1">> -> TRUE
        [] atom = <<WhereCond>> -> c.w
        [] atom = <<RowFilterText>> -> c.f
        [] Len(atom) > 0 /\ atom[1] = "\"" -> c.t
        [] OTHER -> FALSE

\* The classes of source rows a WHERE clause lets through.
Admits(where) ==
  IF where = <<>> THEN RowClasses
  ELSE LET cs == Conjuncts(Tail(where), <<>>)
       IN  { c \in RowClasses : \A i \in 1..Len(cs) : Satisfies(c, cs[i]) }

\* Rows a statement with the given LIMIT and OFFSET clauses returns out
\* of n.
Limited(n, limit, offset) ==
  LET rest == IF offset # <<>> /\ offset[1] < n THEN n - offset[1]
              ELSE IF offset # <<>> THEN 0 ELSE n
  IN  IF limit = <<>> THEN rest ELSE Min(rest, limit[1])

\* ------------------------------------------------------------ state

VARIABLES
  q,          \* the MetricsViewAggregation receiver
  mv,         \* q.MetricsView
  dialect,    \* olap.Dialect()
  policy,     \* q.ResolvedMVSecurity
  priority,   \* Resolve's priority argument
  pc,         \* position in Resolve / pivotDruid
  err,        \* Resolve's return value once pc = "done"
  olap,       \* the OLAP handle: "none", "acquired", "released"
  sqlString,  \* the compiled base query and its arguments
  stmts,      \* the statements issued so far, in order
  ctx,        \* the caller's context
  base,       \* what the base aggregation yields on the backend
  native,     \* the temporary table of the native path, and count
  druid,      \* the local instance, its table, the appender and the cursor
  req,        \* the request as the caller made it (q before Resolve)
  failed,     \* the step of Resolve that failed, "" while none has
  opts,       \* Export's options; <<>> when Resolve is called directly
  export,     \* Export's position, hook calls, writer and return value
  pivotOps,   \* concurrent pivotDruid calls: position, instance, table
  instances,  \* the local embedded instances opened so far
  adminDb,    \* the admin database: projects, users, project members
  lastCall,   \* the admin request served last: what it did and returned
  deployments, \* the deployments recorded in the admin database
  provision   \* the Provision call made last: options and result

inputs == <<mv, dialect, policy, priority, req, opts>>

\* The state of one Resolve / Export call.
resolveVars == <<q, mv, dialect, policy, priority, pc, err, olap, sqlString, stmts,
                 ctx, base, native, druid, req, failed, opts, export>>

\* The state of the concurrent manual pivots.
pivotVars == <<pivotOps, instances>>

\* The state of the admin project handlers.
adminVars == <<adminDb, lastCall>>

\* The state of the static provisioner.
provVars == <<deployments, provision>>

\* What a Resolve / Export call leaves alone.
outside == <<pivotVars, adminVars, provVars>>

vars == <<resolveVars, outside>>

\* A statement as the backend (db "olap") or the local instance (db
\* "local") receives it.
Stmt(kind, db, c, prio, limit, offset) ==
  [ kind |-> kind, db |-> db, ctx |-> c, priority |-> prio,
    limit |-> limit, offset |-> offset ]

\* Whether an operation run under context c can succeed: the caller's
\* context fails everything once it is cancelled; ensuredCtx and
\* context.Background() are never cancelled.
Live(c) == c # "ctx" \/ ~ctx.cancelled

\* The error of a failed operation under the caller's context.
Failure == IF ctx.cancelled THEN ErrCtx ELSE ErrBackend

\* The outcomes an operation under the caller's context can have.
Outcomes == IF ctx.cancelled THEN {"fail"} ELSE {"ok", "fail"}


\* ------------------------------------------------------------ inputs

PlainDim(n) == [ Name |-> n, TimeGrain |-> TimeGrainUnspecified, TimeZone |-> "" ]
TimeDim(n, g, tz) == [ Name |-> n, TimeGrain |-> g, TimeZone |-> tz ]
Measure(n) == [ Name |-> n, BuiltinMeasure |-> BuiltinUnspecified, BuiltinMeasureArgs |-> <<>> ]
Builtin(n, b, a) == [ Name |-> n, BuiltinMeasure |-> b, BuiltinMeasureArgs |-> a ]

DimensionLists ==
  { <<>>, <<PlainDim("domain")>>, <<PlainDim("domain"), PlainDim("publisher")>> }

MeasureLists ==
  { <<>>, <<Measure("impressions")>>,
    <<Measure("impressions"), Builtin("cnt", BuiltinCount, <<>>)>> }

BadMeasureLists ==
  { <<Builtin("uniq", BuiltinCountDistinct, <<>>)>>,
    <<Builtin("uniq", BuiltinCountDistinct, <<"">>)>> }

TheWhere == [ cond |-> WhereCond, args |-> <<"msn.com">>, ok |-> TRUE ]
TheFilter == [ cond |-> WhereCond, args |-> <<"msn.com">> ]
TheTimeRange == [ start |-> "2024-01-01", end |-> "2024-02-01" ]

\* The condition of the modelled HAVING expression.
HavingCond == "impressions > ?"
TheHaving == [ cond |-> HavingCond, args |-> <<"10">>, ok |-> TRUE ]

\* An expression that compiles to an empty fragment.
EmptyExpression == [ cond |-> "", args |-> <<>>, ok |-> TRUE ]

\* Dimension lists with time-bucketed dimensions: no, UTC and other
\* timezones, the view's time dimension and an undeclared column.
TimeDimensionLists ==
  { <<TimeDim("ts", "TIME_GRAIN_DAY", "")>>,
    <<PlainDim("domain"), TimeDim("ts", "TIME_GRAIN_DAY", "UTC")>>,
    <<PlainDim("domain"), TimeDim("ts", "TIME_GRAIN_DAY", "Europe/Berlin")>>,
    <<TimeDim("ts", "TIME_GRAIN_HOUR", "Asia/Kolkata"), PlainDim("publisher"),
      TimeDim("publisher", "TIME_GRAIN_MONTH", "Europe/Berlin")>>,
    <<PlainDim("domain"), PlainDim("nope")>> }

Request(dims, ms, tr, where, filter, limit, offset, pivotOn, prio) ==
  [ Dimensions |-> dims, Measures |-> ms, TimeRange |-> tr, Where |-> where,
    Having |-> <<>>, Priority |-> prio, Limit |-> limit, Offset |-> offset,
    PivotOn |-> pivotOn, Filter |-> filter, Result |-> <<>> ]

\* State before Resolve is called: nothing acquired, nothing issued.
InitState ==
  /\ pc = "start"
  /\ req = q
  /\ failed = ""
  /\ err = ErrNil
  /\ olap = "none"
  /\ sqlString = [ sql |-> NoSQL, args |-> <<>> ]
  /\ stmts = <<>>
  /\ ctx = [ cancelled |-> FALSE, withTable |-> FALSE ]
  /\ base = [ N |-> 0, from |-> {} ]
  /\ native = [ table |-> "absent", rows |-> 0, count |-> 0, probed |-> FALSE ]
  /\ druid = [ db |-> "none", table |-> "absent", flushed |-> 0, buffered |-> 0,
               appended |-> 0, count |-> 0, cursor |-> 0, rowsOpen |-> FALSE,
               rowsAppended |-> <<>> ]
  /\ export = [ pc |-> IF opts = <<>> THEN "none" ELSE "resolve", err |-> ErrNil,
                filename |-> <<>>, hookCalls |-> <<>>, written |-> FALSE,
                encoder |-> "none" ]

\* Requests that exercise the execution paths: every column count, every
\* limit and offset shape, with and without a pivot axis, on each dialect.
InitExec ==
  /\ \E dims \in DimensionLists, ms \in MeasureLists \cup BadMeasureLists,
        limit \in {<<>>, <<0>>, <<2>>}, offset \in {0, 1},
        pivotOn \in {<<>>, <<"domain">>}, prio \in {0, 1} :
       q = Request(dims, ms, <<>>, <<>>, <<>>, limit, offset, pivotOn, prio)
  /\ mv = MetricsView("")
  /\ dialect \in {DialectDuckDB, DialectDruid, DialectOther}
  /\ policy = <<>>
  /\ priority = 1
  /\ opts = <<>>
  /\ InitState

\* Requests that exercise the filters: time range, WHERE, legacy filter
\* and security policy in every combination.
InitFilters ==
  /\ \E tr \in {<<>>, <<TheTimeRange>>},
        where \in {<<>>, <<TheWhere>>, <<EmptyExpression>>},
        filter \in {<<>>, <<TheFilter>>}, pivotOn \in {<<>>, <<"domain">>} :
       q = Request(<<PlainDim("domain")>>, <<Measure("impressions")>>, tr, where,
                   filter, <<>>, 0, pivotOn, 1)
  /\ mv \in {MetricsView(""), MetricsView("ts")}
  /\ dialect \in {DialectDuckDB, DialectDruid}
  /\ policy \in {<<>>, <<[RowFilter |-> ""]>>, <<[RowFilter |-> RowFilterText]>>}
  /\ priority = 1
  /\ opts = <<>>
  /\ InitState

\* Requests that exercise the builder: time-bucketed dimensions, time
\* range, WHERE and HAVING expressions (also ones compiling to nothing),
\* on every dialect; a pivot axis on the requests without filters.
InitBuilder ==
  /\ \E dims \in TimeDimensionLists, ms \in {<<>>, <<Measure("impressions")>>},
        tr \in {<<>>, <<TheTimeRange>>},
        where \in {<<>>, <<TheWhere>>, <<EmptyExpression>>},
        having \in {<<>>, <<TheHaving>>, <<EmptyExpression>>},
        pivotOn \in {<<>>, <<"domain">>} :
       /\ pivotOn # <<>> => (tr = <<>> /\ where = <<>> /\ having = <<>>)
       /\ q = [ Request(dims, ms, tr, where, <<>>, <<>>, 0, pivotOn, 1)
                 EXCEPT !.Having = having ]
  /\ mv \in {MetricsView(""), MetricsView("ts")}
  /\ dialect \in {DialectDuckDB, DialectDruid, DialectOther}
  /\ policy = <<>>
  /\ priority = 1
  /\ opts = <<>>
  /\ InitState

\* The export formats.
ExportFormats ==
  { "EXPORT_FORMAT_UNSPECIFIED", "EXPORT_FORMAT_CSV", "EXPORT_FORMAT_XLSX",
    "EXPORT_FORMAT_PARQUET" }

\* Requests made through Export: every combination of time range, WHERE,
\* HAVING and legacy filter, with and without a pre-write hook, in every
\* format, on a table with and without a quote in its name; a pivot axis
\* on the requests without filters.  Resolve runs with opts.Priority.
InitExport ==
  /\ \E tr \in {<<>>, <<TheTimeRange>>}, where \in {<<>>, <<TheWhere>>},
        having \in {<<>>, <<TheHaving>>}, filter \in {<<>>, <<TheFilter>>},
        pivotOn \in {<<>>, <<"domain">>} :
       /\ pivotOn # <<>> => (tr = <<>> /\ where = <<>> /\ having = <<>> /\ filter = <<>>)
       /\ q = [ Request(<<PlainDim("domain")>>, <<Measure("impressions")>>, tr, where,
                        filter, <<>>, 0, pivotOn, 1)
                 EXCEPT !.Having = having ]
  /\ \E table \in {"ad_bids", QuotedTable} :
       mv = [ MetricsView("ts") EXCEPT !.Table = table ]
  /\ dialect \in {DialectDuckDB, DialectDruid}
  /\ policy = <<>>
  /\ \E hook \in {"nil", "set"}, format \in ExportFormats :
       opts = << [ Priority |-> 1, PreWriteHook |-> hook, Format |-> format ] >>
  /\ priority = opts[1].Priority
  /\ InitState

\* No concurrent pivot is under way.
PivotsIdle ==
  /\ pivotOps = <<>>
  /\ instances = <<>>

\* No admin request has been served.
AdminIdle ==
  /\ adminDb = [ projects |-> {}, users |-> {}, members |-> {} ]
  /\ lastCall = <<>>

\* No deployment is recorded and Provision has not been called.
ProvisionerIdle ==
  /\ deployments = <<>>
  /\ provision = <<>>

\* Nothing outside the one Resolve / Export call is under way.
OutsideIdle == PivotsIdle /\ AdminIdle /\ ProvisionerIdle

Init ==
  /\ InitExec \/ InitFilters \/ InitBuilder \/ InitExport
  /\ OutsideIdle

\* ------------------------------------------------------------ Resolve

\* return e from Resolve: the deferred release() runs.  failed records
\* the step whose failure led to this return, if one did.
ReturnAt(e, step) ==
  /\ pc' = "done"
  /\ err' = e
  /\ olap' = "released"
  /\ failed' = step

Return(e) == ReturnAt(e, "")

\* The caller's context is cancelled (or its deadline passes) while
\* Resolve runs.
Cancel ==
  /\ pc # "done"
  /\ ~ctx.cancelled
  /\ ctx' = [ cancelled |-> TRUE,
              withTable |-> native.table = "present" \/ druid.table = "present" ]
  /\ UNCHANGED <<outside, q, inputs, export, pc, err, olap, failed, sqlString, stmts, base, native, druid>>

\* rt.OLAP(ctx, instanceID)
Resolve_OLAP ==
  /\ pc = "start"
  /\ \E o \in Outcomes :
       IF o = "fail"
       THEN pc' = "done" /\ err' = (IF ctx.cancelled THEN ErrCtx ELSE ErrOLAP)
            /\ failed' = "olap"
            /\ UNCHANGED olap
       ELSE pc' = "validate" /\ olap' = "acquired" /\ UNCHANGED <<err, failed>>
  /\ UNCHANGED <<outside, q, inputs, export, sqlString, stmts, ctx, base, native, druid>>

\* Variant: a time range is accepted on a view without time dimension.
preBuildError_noTimeDimCheck(qq, view, d) ==
  IF d # DialectDuckDB /\ d # DialectDruid THEN ErrDialect
  ELSE IF qq.Filter # <<>> /\ qq.Where # <<>> THEN ErrFilterAndWhere
  ELSE ErrNil

\* Variant: every dialect is accepted.
preBuildError_anyDialect(qq, view, d) ==
  IF view.TimeDimension = "" /\ ~isTimeRangeNil(qq.TimeRange) THEN ErrNoTimeDim
  ELSE IF qq.Filter # <<>> /\ qq.Where # <<>> THEN ErrFilterAndWhere
  ELSE ErrNil

\* The checks before the builder runs.
preBuildError(qq, view, d) ==
  IF d # DialectDuckDB /\ d # DialectDruid THEN ErrDialect
  ELSE IF view.TimeDimension = "" /\ ~isTimeRangeNil(qq.TimeRange) THEN ErrNoTimeDim
  ELSE IF qq.Filter # <<>> /\ qq.Where # <<>> THEN ErrFilterAndWhere
  ELSE ErrNil

\* Variant: the legacy filter is not converted.
whereAfterFilter_keep(qq) == qq.Where

\* q.Where after the backwards-compatibility conversion.
whereAfterFilter(qq) ==
  IF qq.Filter # <<>> THEN <<convertFilterToExpression(qq.Filter[1])>> ELSE qq.Where

\* Where Resolve goes once the query is built.
dispatch(qq, d) ==
  IF Len(qq.PivotOn) = 0 THEN "query"
  ELSE IF d = DialectDuckDB THEN "n_conn"
  ELSE "d_execute"

\* Variant: the base query is sent before the checks' errors are
\* returned.
Resolve_Build_execFirst ==
  /\ pc = "validate"
  /\ LET e == preBuildError(q, mv, dialect)
         q1 == [ q EXCEPT !.Where = whereAfterFilter(q) ]
         b == buildMetricsAggregationSQL(q1, mv, dialect, policy)
     IN  IF e # ErrNil
         THEN /\ Return(e)
              /\ stmts' = Append(stmts, Stmt("query", "olap", "ctx", priority, <<>>, <<>>))
              /\ UNCHANGED <<q, sqlString>>
         ELSE IF b.err # ErrNil
         THEN /\ Return(b.err)
              /\ q' = [ q1 EXCEPT !.Limit = b.Limit ]
              /\ stmts' = Append(stmts, Stmt("query", "olap", "ctx", priority, <<>>, <<>>))
              /\ UNCHANGED <<sqlString>>
         ELSE /\ pc' = dispatch(q1, dialect)
              /\ q' = [ q1 EXCEPT !.Limit = b.Limit ]
              /\ sqlString' = [ sql |-> b.sql, args |-> b.args ]
              /\ UNCHANGED <<err, olap, failed, stmts>>
  /\ UNCHANGED <<outside, inputs, export, ctx, base, native, druid>>

\* Dialect, time-dimension and filter checks, then the builder.
Resolve_Build ==
  /\ pc = "validate"
  /\ LET e == preBuildError(q, mv, dialect)
         q1 == [ q EXCEPT !.Where = whereAfterFilter(q) ]
         b == buildMetricsAggregationSQL(q1, mv, dialect, policy)
     IN  IF e # ErrNil
         THEN /\ Return(e)
              /\ UNCHANGED <<q, sqlString, stmts>>
         ELSE IF b.err # ErrNil
         THEN /\ Return(b.err)
              /\ q' = [ q1 EXCEPT !.Limit = b.Limit ]
              /\ UNCHANGED <<sqlString, stmts>>
         ELSE /\ pc' = dispatch(q1, dialect)
              /\ q' = [ q1 EXCEPT !.Limit = b.Limit ]
              /\ sqlString' = [ sql |-> b.sql, args |-> b.args ]
              /\ UNCHANGED <<err, olap, failed, stmts>>
  /\ UNCHANGED <<outside, inputs, export, ctx, base, native, druid>>

\* The number of rows the base aggregation would produce without a LIMIT.
BaseRows == 0..(maxPivotCells + ExtraRows)

\* The response olapQuery / toData build from a statement's rows.
Response(rows, from) == <<[ rows |-> rows, from |-> from ]>>

\* No pivot: olapQuery(ctx, olap, priority, sqlString, args)
Resolve_Query ==
  /\ pc = "query"
  /\ stmts' = Append(stmts, Stmt("query", "olap", "ctx", priority,
                                 sqlString.sql.limit, sqlString.sql.offset))
  /\ \E o \in Outcomes, n \in BaseRows :
       IF o = "fail"
       THEN ReturnAt(Failure, "base query") /\ UNCHANGED <<q, base>>
       ELSE /\ base' = [ N |-> n, from |-> Admits(sqlString.sql.where) ]
            /\ q' = [ q EXCEPT !.Result =
                        Response(Limited(n, sqlString.sql.limit, sqlString.sql.offset),
                                 Admits(sqlString.sql.where)) ]
            /\ Return(ErrNil)
  /\ UNCHANGED <<outside, inputs, export, sqlString, ctx, native, druid>>


\* ---------------------------------------- the native (DuckDB) pivot

\* olap.WithConnection(ctx, priority, false, false, ...): the connection
\* is acquired, or the call fails before the callback runs.
Native_WithConnection ==
  /\ pc = "n_conn"
  /\ \E o \in Outcomes :
       IF o = "fail" THEN ReturnAt(Failure, "connection")
       ELSE pc' = "n_create" /\ UNCHANGED <<err, olap, failed>>
  /\ UNCHANGED <<outside, q, inputs, export, sqlString, stmts, ctx, base, native, druid>>

\* CREATE TEMPORARY TABLE ... AS <base query>
Native_Create ==
  /\ pc = "n_create"
  /\ stmts' = Append(stmts, Stmt("create", "olap", "ctx", priority,
                                 sqlString.sql.limit, sqlString.sql.offset))
  /\ \E o \in Outcomes, n \in BaseRows :
       IF o = "fail"
       THEN ReturnAt(Failure, "create table") /\ UNCHANGED <<base, native>>
       ELSE /\ base' = [ N |-> n, from |-> Admits(sqlString.sql.where) ]
            /\ native' = [ native EXCEPT
                             !.table = "present",
                             !.rows = Limited(n, sqlString.sql.limit, sqlString.sql.offset) ]
            /\ pc' = "n_count"
            /\ UNCHANGED <<err, olap, failed>>
  /\ UNCHANGED <<outside, q, inputs, export, sqlString, ctx, druid>>

\* SELECT COUNT(*) FROM <temporary table>
Native_Count ==
  /\ pc = "n_count"
  /\ stmts' = Append(stmts, Stmt("count", "olap", "ctx", priority, <<>>, <<>>))
  /\ \E o \in Outcomes :
       IF o = "fail" THEN ReturnAt(Failure, "count probe")
       ELSE pc' = "n_scan" /\ UNCHANGED <<err, olap, failed>>
  /\ UNCHANGED <<outside, q, inputs, export, sqlString, ctx, base, native, druid>>

\* Variant: the count is read but not compared with the cell budget.
Native_Scan_noBudget ==
  /\ pc = "n_scan"
  /\ \E o \in {"norow", "scanfail", "ok"} :
       CASE o = "norow" ->
              /\ native' = [ native EXCEPT !.count = 0 ]
              /\ pc' = "n_pivot"
              /\ UNCHANGED <<err, olap, failed>>
         [] o = "scanfail" ->
              /\ ReturnAt(ErrBackend, "count scan")
              /\ UNCHANGED native
         [] o = "ok" ->
              /\ native' = [ native EXCEPT !.count = native.rows, !.probed = TRUE ]
              /\ pc' = "n_pivot" /\ UNCHANGED <<err, olap, failed>>
  /\ UNCHANGED <<outside, q, inputs, export, sqlString, stmts, ctx, base, druid>>

\* res.Next(), res.Scan(&count) and the comparison with the cell budget.
\* Next() is false when the result delivers no row (count stays 0).
Native_Scan ==
  /\ pc = "n_scan"
  /\ \E o \in {"norow", "scanfail", "ok"} :
       CASE o = "norow" ->
              /\ native' = [ native EXCEPT !.count = 0 ]
              /\ pc' = "n_pivot"
              /\ UNCHANGED <<err, olap, failed>>
         [] o = "scanfail" ->
              /\ ReturnAt(ErrBackend, "count scan")
              /\ UNCHANGED native
         [] o = "ok" ->
              /\ native' = [ native EXCEPT !.count = native.rows, !.probed = TRUE ]
              /\ IF native.rows > maxPivotCells \div cols(q)
                 THEN Return(ErrCellsNative)
                 ELSE pc' = "n_pivot" /\ UNCHANGED <<err, olap, failed>>
  /\ UNCHANGED <<outside, q, inputs, export, sqlString, stmts, ctx, base, druid>>

\* The deferred DROP TABLE, run under context c.
nativeDrop(c) ==
  [ native EXCEPT !.table = IF Live(c) THEN "absent" ELSE @ ]

\* The PIVOT query over the temporary table; the drop deferred just
\* before it runs when the callback returns.
Native_Pivot ==
  /\ pc = "n_pivot"
  /\ LET p == createPivotSQL(q, "_for_pivot_")
     IN  /\ stmts' = stmts \o
                 << Stmt("pivot", "olap", "ctx", q.Priority, p.limit, p.offset),
                    Stmt("drop", "olap", "ensuredCtx", 0, <<>>, <<>>) >>
         /\ \E o \in Outcomes :
              IF o = "fail"
              THEN ReturnAt(Failure, "pivot query") /\ q' = [ q EXCEPT !.Limit = p.limit ]
              ELSE /\ q' = [ q EXCEPT !.Limit = p.limit,
                                      !.Result = Response(Limited(native.rows, p.limit, p.offset),
                                                          base.from) ]
                   /\ Return(ErrNil)
  /\ native' = nativeDrop("ensuredCtx")
  /\ UNCHANGED <<outside, inputs, export, sqlString, ctx, base, druid>>


\* ----------------------------------------- the manual (Druid) pivot

\* olap.Execute(ctx, base query) on the remote backend: the row cursor.
Druid_Execute ==
  /\ pc = "d_execute"
  /\ stmts' = Append(stmts, Stmt("execute", "olap", "ctx", priority,
                                 sqlString.sql.limit, sqlString.sql.offset))
  /\ \E o \in Outcomes, n \in BaseRows :
       IF o = "fail"
       THEN ReturnAt(ErrNil, "base query") /\ UNCHANGED <<base, druid>>
       ELSE /\ base' = [ N |-> n, from |-> Admits(sqlString.sql.where) ]
            /\ druid' = [ druid EXCEPT
                            !.cursor = Limited(n, sqlString.sql.limit, sqlString.sql.offset),
                            !.rowsOpen = TRUE ]
            /\ pc' = "d_connect"
            /\ UNCHANGED <<err, olap, failed>>
  /\ UNCHANGED <<outside, q, inputs, export, sqlString, ctx, native>>

\* Variant: the table is not dropped and pivotDB is not closed.
pivotDruidDefers_leak(d) ==
  [ d EXCEPT !.flushed = d.flushed + d.buffered, !.buffered = 0 ]

\* The deferred calls of pivotDruid, in the order they run: the appender
\* is closed (flushing what it buffers), DROP TABLE runs under
\* context.Background() when the table was created, pivotDB is closed.
pivotDruidDefers(d) ==
  [ d EXCEPT !.flushed = d.flushed + d.buffered,
             !.buffered = 0,
             !.table = IF d.table = "present" /\ Live("background") THEN "absent" ELSE @,
             !.db = "closed" ]

\* return e from pivotDruid and then from Resolve: pivotDruid's deferred
\* calls, rows.Close(), release().  log is the statements issued so far.
DruidReturn(e, step, d, log) ==
  /\ ReturnAt(e, step)
  /\ druid' = [ pivotDruidDefers(d) EXCEPT !.rowsOpen = FALSE ]
  /\ stmts' = IF d.table = "present"
              THEN Append(log, Stmt("drop", "local", "background", 0, <<>>, <<>>))
              ELSE log

\* sqlx.Connect("duckdb", "")
Druid_Connect ==
  /\ pc = "d_connect"
  /\ \E o \in {"ok", "fail"} :
       IF o = "fail"
       THEN /\ ReturnAt(ErrLocal, "local connect")
            /\ druid' = [ druid EXCEPT !.rowsOpen = FALSE ]
       ELSE /\ druid' = [ druid EXCEPT !.db = "open" ]
            /\ pc' = "d_create"
            /\ UNCHANGED <<err, olap, failed>>
  /\ UNCHANGED <<outside, q, inputs, export, sqlString, stmts, ctx, base, native>>

\* duckdbolap.CreateTableQuery and pivotDB.ExecContext(ctx, createTableSQL)
Druid_CreateTable ==
  /\ pc = "d_create"
  /\ \/ /\ DruidReturn(ErrLocal, "create table", druid, stmts)
     \/ \E o \in Outcomes :
          LET log == Append(stmts, Stmt("create", "local", "ctx", 0, <<>>, <<>>))
          IN  IF o = "fail"
              THEN DruidReturn(Failure, "create table", druid, log)
              ELSE /\ druid' = [ druid EXCEPT !.table = "present" ]
                   /\ stmts' = log
                   /\ pc' = "d_conn"
                   /\ UNCHANGED <<err, olap, failed>>
  /\ UNCHANGED <<outside, q, inputs, export, sqlString, ctx, base, native>>

\* pivotDB.Conn(ctx)
Druid_Conn ==
  /\ pc = "d_conn"
  /\ \E o \in Outcomes :
       IF o = "fail"
       THEN DruidReturn(ErrNil, "local connection", druid, stmts)
       ELSE pc' = "d_appender" /\ UNCHANGED <<err, olap, failed, druid, stmts>>
  /\ UNCHANGED <<outside, q, inputs, export, sqlString, ctx, base, native>>

\* conn.Raw: the driver connection, duckdb.NewAppenderFromConn and
\* rows.Columns(); count starts at 0.
Druid_Appender ==
  /\ pc = "d_appender"
  /\ \E o \in {"ok", "fail"} :
       IF o = "fail"
       THEN DruidReturn(ErrLocal, "appender", druid, stmts)
       ELSE /\ druid' = [ druid EXCEPT !.count = 0 ]
            /\ pc' = "d_loop"
            /\ UNCHANGED <<err, olap, failed, stmts>>
  /\ UNCHANGED <<outside, q, inputs, export, sqlString, ctx, base, native>>

\* The number of rows the remote cursor delivers; the row rows.Next()
\* moves to is numbered by its position in the cursor.
cursorRows == Limited(base.N, sqlString.sql.limit, sqlString.sql.offset)

\* One iteration of for rows.Next(): scan, append, count, budget check,
\* batch flush.
Druid_LoopRow ==
  /\ pc = "d_loop"
  /\ druid.cursor > 0
  /\ ~ctx.cancelled
  /\ \E o \in {"ok", "scanfail", "appendfail"} :
       LET read == [ druid EXCEPT !.cursor = @ - 1 ]
           app == [ read EXCEPT !.buffered = @ + 1, !.appended = @ + 1, !.count = @ + 1,
                                !.rowsAppended = Append(@, cursorRows - druid.cursor + 1) ]
           maxCount == maxPivotCells \div cols(q)
       IN  CASE o = "scanfail" -> DruidReturn(ErrBackend, "row scan", read, stmts)
             [] o = "appendfail" -> DruidReturn(ErrLocal, "row append", read, stmts)
             [] o = "ok" ->
                  IF app.count > maxCount
                  THEN DruidReturn(ErrCellsDruid, "", app, stmts)
                  ELSE /\ druid' = IF app.count >= batchSize
                                   THEN [ app EXCEPT !.flushed = @ + app.buffered,
                                                     !.buffered = 0, !.count = 0 ]
                                   ELSE app
                       /\ pc' = "d_loop"
                       /\ UNCHANGED <<err, olap, failed, stmts>>
  /\ UNCHANGED <<outside, q, inputs, export, sqlString, ctx, base, native>>

\* Variant: the loop ends without the final appender.Flush().
Druid_LoopEnd_noFlush ==
  /\ pc = "d_loop"
  /\ \/ /\ druid.cursor = 0
        /\ ~ctx.cancelled
        /\ pc' = "d_pivot"
        /\ UNCHANGED <<err, olap, failed, stmts, druid>>
     \/ /\ druid.cursor > 0 \/ ctx.cancelled
        /\ DruidReturn(Failure, "row cursor", druid, stmts)
  /\ UNCHANGED <<outside, q, inputs, export, sqlString, ctx, base, native>>

\* rows.Next() returns false: the cursor is drained, or it failed (its
\* error is rows.Err()).  appender.Flush(), then the rows.Err() check.
Druid_LoopEnd ==
  /\ pc = "d_loop"
  /\ LET flushedAll == [ druid EXCEPT !.flushed = @ + druid.buffered, !.buffered = 0 ]
     IN  \/ /\ druid.cursor = 0
            /\ ~ctx.cancelled
            /\ druid' = flushedAll
            /\ pc' = "d_pivot"
            /\ UNCHANGED <<err, olap, failed, stmts>>
         \/ /\ druid.cursor > 0 \/ ctx.cancelled
            /\ DruidReturn(Failure, "row cursor", flushedAll, stmts)
  /\ UNCHANGED <<outside, q, inputs, export, sqlString, ctx, base, native>>

\* pivotDB.QueryxContext(ctx, createPivotSQL), RowsToSchema, toData.
Druid_Pivot ==
  /\ pc = "d_pivot"
  /\ LET p == createPivotSQL(q, "_for_pivot_")
         log == Append(stmts, Stmt("pivot", "local", "ctx", 0, p.limit, p.offset))
     IN  \E o \in Outcomes \cup {"datafail"} :
           CASE o = "fail" ->
                  DruidReturn(Failure, "pivot query", druid, log)
                  /\ q' = [ q EXCEPT !.Limit = p.limit ]
             [] o = "datafail" ->
                  DruidReturn(ErrLocal, "pivot query", druid, log)
                  /\ q' = [ q EXCEPT !.Limit = p.limit ]
             [] o = "ok" ->
                  /\ q' = [ q EXCEPT !.Limit = p.limit,
                                     !.Result = Response(Limited(druid.flushed, p.limit, p.offset),
                                                         base.from) ]
                  /\ DruidReturn(ErrNil, "", druid, log)
  /\ UNCHANGED <<outside, inputs, export, sqlString, ctx, base, native>>

\* ------------------------------------------------------------- Export

ErrHook == "pre-write hook error"
ErrFormat == "unspecified format"
ErrWrite == "write error"

\* strings.ReplaceAll(s, old, new) for a one-character old.
RECURSIVE ReplaceAll(_, _, _)
ReplaceAll(chars, old, new) ==
  IF chars = <<>> THEN <<>>
  ELSE <<IF Head(chars) = old THEN new ELSE Head(chars)>>
         \o ReplaceAll(Tail(chars), old, new)

\* Variant: a HAVING expression alone does not mark the export filtered.
filteredSuffix_noHaving(qq) ==
  IF ~isTimeRangeNil(qq.TimeRange) \/ qq.Where # <<>>
  THEN <<"_filtered">> ELSE <<>>

\* The suffix of the file name, from q as Resolve left it.
filteredSuffix(qq) ==
  IF ~isTimeRangeNil(qq.TimeRange) \/ qq.Where # <<>> \/ qq.Having # <<>>
  THEN <<"_filtered">> ELSE <<>>

exportFilename(qq, view) ==
  ReplaceAll(Chars(view.Table), "\"", "_") \o filteredSuffix(qq)

\* Resolve has returned to Export: its error is passed on; else the file
\* name is built and q.Result.Schema is read, which panics when Resolve
\* returned nil without a Result.
Export_Resolved ==
  /\ export.pc = "resolve"
  /\ pc = "done"
  /\ export' = IF err # ErrNil THEN [ export EXCEPT !.pc = "done", !.err = err ]
               ELSE IF q.Result = <<>>
               THEN [ export EXCEPT !.pc = "panic",
                                    !.filename = exportFilename(q, mv) ]
               ELSE [ export EXCEPT !.pc = "hook",
                                    !.filename = exportFilename(q, mv) ]
  /\ UNCHANGED <<outside, q, inputs, pc, err, olap, failed, sqlString, stmts, ctx, base,
                 native, druid>>

\* if opts.PreWriteHook != nil { err = opts.PreWriteHook(filename) ... }
Export_Hook ==
  /\ export.pc = "hook"
  /\ IF opts[1].PreWriteHook = "nil"
     THEN export' = [ export EXCEPT !.pc = "encode" ]
     ELSE \E o \in {"ok", "fail"} :
            export' = [ export EXCEPT
                          !.hookCalls = Append(@, [ name |-> export.filename,
                                                    written |-> export.written ]),
                          !.pc = IF o = "ok" THEN "encode" ELSE "done",
                          !.err = IF o = "ok" THEN ErrNil ELSE ErrHook ]
  /\ UNCHANGED <<outside, q, inputs, pc, err, olap, failed, sqlString, stmts, ctx, base,
                 native, druid>>

\* switch opts.Format: no encoder for the unspecified format, else the
\* encoder writes to w and may fail while doing so.
Export_Encode ==
  /\ export.pc = "encode"
  /\ IF opts[1].Format = "EXPORT_FORMAT_UNSPECIFIED"
     THEN export' = [ export EXCEPT !.pc = "done", !.err = ErrFormat ]
     ELSE \E o \in {"ok", "fail"} :
            export' = [ export EXCEPT
                          !.pc = "done",
                          !.written = TRUE,
                          !.encoder = opts[1].Format,
                          !.err = IF o = "ok" THEN ErrNil ELSE ErrWrite ]
  /\ UNCHANGED <<outside, q, inputs, pc, err, olap, failed, sqlString, stmts, ctx, base,
                 native, druid>>

Next ==
  \/ Cancel
  \/ Resolve_OLAP
  \/ Resolve_Build
  \/ Resolve_Query
  \/ Native_WithConnection
  \/ Native_Create
  \/ Native_Count
  \/ Native_Scan
  \/ Native_Pivot
  \/ Druid_Execute
  \/ Druid_Connect
  \/ Druid_CreateTable
  \/ Druid_Conn
  \/ Druid_Appender
  \/ Druid_LoopRow
  \/ Druid_LoopEnd
  \/ Druid_Pivot
  \/ Export_Resolved
  \/ Export_Hook
  \/ Export_Encode

Spec == Init /\ [][Next]_vars

\* -------------------------------------- concurrent manual pivots

\* The number of pivotDruid calls that run at the same time.
MaxPivots == 2

PivotIds == 1..MaxPivots

\* One Resolve call at rest, while other parts of the system run.
ResolveIdle ==
  /\ q = Request(<<PlainDim("domain")>>, <<Measure("impressions")>>, <<>>, <<>>,
                 <<>>, <<>>, 0, <<"domain">>, 1)
  /\ mv = MetricsView("")
  /\ dialect = DialectDruid
  /\ policy = <<>>
  /\ priority = 1
  /\ opts = <<>>
  /\ InitState

\* tempName("_for_pivot_"): a name of the call's own.
tempName(p) == <<"_for_pivot_", p>>

\* Variant: the calls share one instance kept open between them.
openInstance_shared(insts, p) ==
  IF \E id \in 1..Len(insts) : insts[id].open
  THEN [ insts |-> insts,
         id |-> CHOOSE id \in 1..Len(insts) : insts[id].open ]
  ELSE [ insts |-> Append(insts, [ open |-> TRUE, tables |-> {}, usedBy |-> {} ]),
         id |-> Len(insts) + 1 ]

\* pivotDB, err := sqlx.Connect("duckdb", ""): a new in-memory instance,
\* held in a variable local to the call.
openInstance(insts, p) ==
  [ insts |-> Append(insts, [ open |-> TRUE, tables |-> {}, usedBy |-> {} ]),
    id |-> Len(insts) + 1 ]

\* Call p runs a statement on its pivotDB.
useInstance(insts, p) ==
  [ insts EXCEPT ![pivotOps[p].db].usedBy = @ \cup {p} ]

\* The deferred calls of call p: DROP TABLE when the table was created,
\* then pivotDB.Close(), which disposes the in-memory instance.
closeInstance(insts, p) ==
  IF pivotOps[p].db = 0 THEN insts
  ELSE [ insts EXCEPT ![pivotOps[p].db] =
           [ open |-> FALSE, tables |-> {}, usedBy |-> @.usedBy \cup {p} ] ]

\* States in which the calls are about to start.
InitPivots ==
  /\ ResolveIdle
  /\ pivotOps = [ p \in PivotIds |-> [ pc |-> "connect", db |-> 0, failed |-> FALSE ] ]
  /\ instances = <<>>
  /\ AdminIdle
  /\ ProvisionerIdle

\* sqlx.Connect("duckdb", "") of call p
Pivot_Connect(p) ==
  /\ pivotOps[p].pc = "connect"
  /\ \E o \in {"ok", "fail"} :
       IF o = "fail"
       THEN /\ pivotOps' = [ pivotOps EXCEPT ![p].pc = "done", ![p].failed = TRUE ]
            /\ UNCHANGED instances
       ELSE LET opened == openInstance(instances, p)
            IN  /\ instances' = opened.insts
                /\ pivotOps' = [ pivotOps EXCEPT ![p].pc = "create", ![p].db = opened.id ]
  /\ UNCHANGED <<resolveVars, adminVars, provVars>>

\* pivotDB.ExecContext(ctx, createTableSQL) of call p
Pivot_CreateTable(p) ==
  /\ pivotOps[p].pc = "create"
  /\ \E o \in {"ok", "fail"} :
       IF o = "fail"
       THEN /\ pivotOps' = [ pivotOps EXCEPT ![p].pc = "done", ![p].failed = TRUE ]
            /\ instances' = closeInstance(useInstance(instances, p), p)
       ELSE /\ pivotOps' = [ pivotOps EXCEPT ![p].pc = "stream" ]
            /\ instances' = [ useInstance(instances, p) EXCEPT
                                ![pivotOps[p].db].tables = @ \cup {tempName(p)} ]
  /\ UNCHANGED <<resolveVars, adminVars, provVars>>

\* pivotDB.Conn, the appender and the streaming loop of call p
Pivot_Stream(p) ==
  /\ pivotOps[p].pc = "stream"
  /\ \E o \in {"ok", "fail"} :
       IF o = "fail"
       THEN /\ pivotOps' = [ pivotOps EXCEPT ![p].pc = "done", ![p].failed = TRUE ]
            /\ instances' = closeInstance(useInstance(instances, p), p)
       ELSE /\ pivotOps' = [ pivotOps EXCEPT ![p].pc = "pivot" ]
            /\ instances' = useInstance(instances, p)
  /\ UNCHANGED <<resolveVars, adminVars, provVars>>

\* pivotDB.QueryxContext(ctx, createPivotSQL) of call p, and its return
Pivot_Query(p) ==
  /\ pivotOps[p].pc = "pivot"
  /\ \E o \in {"ok", "fail"} :
       pivotOps' = [ pivotOps EXCEPT ![p].pc = "done", ![p].failed = (o = "fail") ]
  /\ instances' = closeInstance(useInstance(instances, p), p)
  /\ UNCHANGED <<resolveVars, adminVars, provVars>>

\* The next request served by a call that has returned.
Pivot_Again(p) ==
  /\ pivotOps[p].pc = "done"
  /\ Len(instances) < 2 * MaxPivots
  /\ pivotOps' = [ pivotOps EXCEPT ![p] = [ pc |-> "connect", db |-> 0, failed |-> FALSE ] ]
  /\ UNCHANGED <<instances, resolveVars, adminVars, provVars>>

NextPivots ==
  \E p \in PivotIds :
    \/ Pivot_Connect(p)
    \/ Pivot_CreateTable(p)
    \/ Pivot_Stream(p)
    \/ Pivot_Query(p)
    \/ Pivot_Again(p)

SpecPivots == InitPivots /\ [][NextPivots]_vars

\* ------------------------------------- the admin project handlers

\* The one organization of the modelled database, the project name the
\* requests use, the users' emails and the project roles that exist.
OrgName == "org"
ProjectName == "p1"
Emails == {"ann@rill", "bob@rill"}
ProjectRoles == {"admin", "viewer"}
GithubURLs == {"repo", "other"}

\* auth.GetClaims(ctx): the owner type and the permissions the caller
\* holds on the organization and on the project.
Claims(ownerType, org, proj) == [ ownerType |-> ownerType, org |-> org, proj |-> proj ]

Callers ==
  { Claims("user", {}, {}),
    Claims("user", {"ReadProjects"}, {"ReadProject"}),
    Claims("user", {"ReadProjects", "CreateProjects", "ManageProjects", "ManageOrgMembers"}, {}),
    Claims("user", {}, {"ReadProject", "ManageProject", "ManageProjectMembers"}),
    Claims("service", {"ReadProjects", "CreateProjects", "ManageProjects", "ManageOrgMembers"},
           {"ReadProject", "ManageProject", "ManageProjectMembers"}) }

\* claims.Can(ctx, orgID, orgPermission, projectID, projectPermission)
Can(claims, orgPerm, projPerm) == orgPerm \in claims.org \/ projPerm \in claims.proj

\* claims.CanOrganization(ctx, orgID, permission)
CanOrganization(claims, orgPerm) == orgPerm \in claims.org

\* DB.FindProjectByName(ctx, orgName, name): the matching projects.
FindProjectByName(db, org, name) ==
  IF org = OrgName THEN { pr \in db.projects : pr.name = name } ELSE {}

\* What a handler did and returned: the permission check ("none" while
\* not reached), the state-changing operations performed in order, the
\* status code, the JWT issuance, and the database before the request.
Served(handler, claims, db, checked, ops, code, jwt) ==
  [ handler |-> handler, claims |-> claims, db |-> db, checked |-> checked,
    ops |-> ops, code |-> code, jwt |-> jwt, n |-> 0 ]

\* The databases the handlers are started on.
AdminDatabases ==
  { [ projects |-> {}, users |-> {}, members |-> {} ] }
    \cup { [ projects |-> {[ name |-> ProjectName, github |-> "repo", deployed |-> pd ]},
             users |-> {"ann@rill"},
             members |-> {[ project |-> ProjectName, user |-> "ann@rill",
                            role |-> "admin" ]} ] : pd \in BOOLEAN }

InitAdmin ==
  /\ ResolveIdle
  /\ PivotsIdle
  /\ ProvisionerIdle
  /\ adminDb \in AdminDatabases
  /\ lastCall = <<>>

\* The number of requests served in one run.
MaxCalls == 2

\* The requests served so far.
Calls == IF lastCall = <<>> THEN 0 ELSE lastCall[1].n

\* A handler returns: the request is recorded with the database it
\* found, the database becomes what the handler left.
Serve(result) ==
  /\ Calls < MaxCalls
  /\ lastCall' = << [ result EXCEPT !.db = adminDb, !.n = Calls + 1 ] >>
  /\ adminDb' = result.db
  /\ UNCHANGED <<resolveVars, pivotVars, provVars>>

\* GetProject
getProject(db, claims, rq, fault) ==
  LET found == FindProjectByName(db, rq.org, rq.name)
      proj == CHOOSE pr \in found : TRUE
      R(checked, code, jwt) == Served("GetProject", claims, db, checked, <<>>, code, jwt)
  IN  IF fault = "FindOrganizationByName" \/ rq.org # OrgName
      THEN R("none", "InvalidArgument", "none")
      ELSE IF fault = "FindProjectByName" THEN R("none", "InvalidArgument", "none")
      ELSE IF found = {} THEN R("none", "NotFound", "none")
      ELSE IF ~Can(claims, "ReadProjects", "ReadProject")
      THEN R("denied", "PermissionDenied", "none")
      ELSE IF ~proj.deployed THEN R("granted", "OK", "none")
      ELSE IF fault = "FindDeployment" THEN R("granted", "Internal", "none")
      ELSE IF fault = "NewToken" THEN R("granted", "Internal", "failed")
      ELSE R("granted", "OK", "issued")

\* CreateProject
createProject(db, claims, rq, fault) ==
  LET R(d, checked, ops, code) == Served("CreateProject", claims, d, checked, ops, code, "none")
      created == [ name |-> rq.name, github |-> rq.github, deployed |-> TRUE ]
  IN  IF claims.ownerType # "user" THEN R(db, "none", <<>>, "Unauthenticated")
      ELSE IF fault = "FindOrganizationByName" THEN R(db, "none", <<>>, "Internal")
      ELSE IF rq.org # OrgName THEN R(db, "none", <<>>, "InvalidArgument")
      ELSE IF ~CanOrganization(claims, "CreateProjects")
      THEN R(db, "denied", <<>>, "PermissionDenied")
      ELSE IF fault = "GetUserGithubInstallation" \/ rq.github \notin GithubURLs
      THEN R(db, "granted", <<>>, "Unknown")
      ELSE IF fault = "CreateProject" \/ FindProjectByName(db, rq.org, rq.name) # {}
      THEN R(db, "granted", <<>>, "InvalidArgument")
      ELSE R([ db EXCEPT !.projects = @ \cup {created} ], "granted",
             <<"CreateProject">>, "OK")

\* Variant: the project is torn down before the permission is checked.
deleteProject_teardownFirst(db, claims, rq, fault) ==
  LET found == FindProjectByName(db, rq.org, rq.name)
      R(d, checked, ops, code) == Served("DeleteProject", claims, d, checked, ops, code, "none")
      torn == [ db EXCEPT !.projects = @ \ found,
                          !.members = { m \in @ : m.project # rq.name } ]
  IN  IF fault = "FindProjectByName" THEN R(db, "none", <<>>, "Internal")
      ELSE IF found = {} THEN R(db, "none", <<>>, "InvalidArgument")
      ELSE IF fault = "TeardownProject" THEN R(db, "none", <<>>, "InvalidArgument")
      ELSE IF ~Can(claims, "ManageProjects", "ManageProject")
      THEN R(torn, "denied", <<"TeardownProject">>, "PermissionDenied")
      ELSE R(torn, "granted", <<"TeardownProject">>, "OK")

\* DeleteProject
deleteProject(db, claims, rq, fault) ==
  LET found == FindProjectByName(db, rq.org, rq.name)
      R(d, checked, ops, code) == Served("DeleteProject", claims, d, checked, ops, code, "none")
  IN  IF fault = "FindProjectByName" THEN R(db, "none", <<>>, "Internal")
      ELSE IF found = {} THEN R(db, "none", <<>>, "InvalidArgument")
      ELSE IF ~Can(claims, "ManageProjects", "ManageProject")
      THEN R(db, "denied", <<>>, "PermissionDenied")
      ELSE IF fault = "TeardownProject" THEN R(db, "granted", <<>>, "InvalidArgument")
      ELSE R([ db EXCEPT !.projects = @ \ found,
                         !.members = { m \in @ : m.project # rq.name } ],
             "granted", <<"TeardownProject">>, "OK")


\* UpdateProject
updateProject(db, claims, rq, fault) ==
  LET found == FindProjectByName(db, rq.org, rq.name)
      proj == CHOOSE pr \in found : TRUE
      R(d, checked, ops, code) == Served("UpdateProject", claims, d, checked, ops, code, "none")
  IN  IF fault = "FindProjectByName" THEN R(db, "none", <<>>, "Internal")
      ELSE IF found = {} THEN R(db, "none", <<>>, "InvalidArgument")
      ELSE IF ~Can(claims, "ManageProjects", "ManageProject")
      THEN R(db, "denied", <<>>, "PermissionDenied")
      ELSE IF proj.github # rq.github
                /\ (fault = "GetUserGithubInstallation" \/ rq.github \notin GithubURLs)
      THEN R(db, "granted", <<>>, "Unknown")
      ELSE IF fault = "UpdateProject" THEN R(db, "granted", <<>>, "Internal")
      ELSE R([ db EXCEPT !.projects = (@ \ found) \cup {[ proj EXCEPT !.github = rq.github ]} ],
             "granted", <<"UpdateProject">>, "OK")

\* AddProjectMember
addProjectMember(db, claims, rq, fault) ==
  LET found == FindProjectByName(db, rq.org, rq.name)
      R(d, checked, ops, code) ==
        Served("AddProjectMember", claims, d, checked, ops, code, "none")
      known == rq.email \in db.users
      db1 == IF known THEN db ELSE [ db EXCEPT !.users = @ \cup {rq.email} ]
      ops1 == IF known THEN <<>> ELSE <<"CreateOrUpdateUser">>
      member == \E m \in db.members : m.project = rq.name /\ m.user = rq.email
  IN  IF fault = "FindProjectByName" THEN R(db, "none", <<>>, "Internal")
      ELSE IF found = {} THEN R(db, "none", <<>>, "InvalidArgument")
      ELSE IF ~Can(claims, "ManageOrgMembers", "ManageProjectMembers")
      THEN R(db, "denied", <<>>, "PermissionDenied")
      ELSE IF fault = "FindUserByEmail" THEN R(db, "granted", <<>>, "Internal")
      ELSE IF ~known /\ fault = "CreateOrUpdateUser" THEN R(db, "granted", <<>>, "Internal")
      ELSE IF fault = "FindProjectRole" THEN R(db1, "granted", ops1, "Internal")
      ELSE IF rq.role \notin ProjectRoles THEN R(db1, "granted", ops1, "InvalidArgument")
      ELSE IF fault = "InsertProjectMemberUser" \/ member
      THEN R(db1, "granted", ops1, "Internal")
      ELSE R([ db1 EXCEPT !.members = @ \cup {[ project |-> rq.name, user |-> rq.email,
                                                  role |-> rq.role ]} ],
             "granted", Append(ops1, "InsertProjectMemberUser"), "OK")

\* RemoveProjectMember
removeProjectMember(db, claims, rq, fault) ==
  LET found == FindProjectByName(db, rq.org, rq.name)
      R(d, checked, ops, code) ==
        Served("RemoveProjectMember", claims, d, checked, ops, code, "none")
  IN  IF fault = "FindProjectByName" THEN R(db, "none", <<>>, "Internal")
      ELSE IF found = {} THEN R(db, "none", <<>>, "InvalidArgument")
      ELSE IF ~Can(claims, "ManageOrgMembers", "ManageProjectMembers")
      THEN R(db, "denied", <<>>, "PermissionDenied")
      ELSE IF fault = "FindUserByEmail" THEN R(db, "granted", <<>>, "Internal")
      ELSE IF rq.email \notin db.users THEN R(db, "granted", <<>>, "InvalidArgument")
      ELSE IF fault = "DeleteProjectMemberUser" THEN R(db, "granted", <<>>, "Internal")
      ELSE R([ db EXCEPT !.members =
                 { m \in @ : ~(m.project = rq.name /\ m.user = rq.email) } ],
             "granted", <<"DeleteProjectMemberUser">>, "OK")

\* SetProjectMemberRole
setProjectMemberRole(db, claims, rq, fault) ==
  LET found == FindProjectByName(db, rq.org, rq.name)
      R(d, checked, ops, code) ==
        Served("SetProjectMemberRole", claims, d, checked, ops, code, "none")
  IN  IF fault = "FindProjectByName" THEN R(db, "none", <<>>, "Internal")
      ELSE IF found = {} THEN R(db, "none", <<>>, "InvalidArgument")
      ELSE IF ~Can(claims, "ManageOrgMembers", "ManageProjectMembers")
      THEN R(db, "denied", <<>>, "PermissionDenied")
      ELSE IF fault = "FindUserByEmail" THEN R(db, "granted", <<>>, "Internal")
      ELSE IF rq.email \notin db.users THEN R(db, "granted", <<>>, "InvalidArgument")
      ELSE IF fault = "FindProjectRole" THEN R(db, "granted", <<>>, "Internal")
      ELSE IF rq.role \notin ProjectRoles THEN R(db, "granted", <<>>, "InvalidArgument")
      ELSE IF fault = "UpdateProjectMemberUserRole" THEN R(db, "granted", <<>>, "Internal")
      ELSE R([ db EXCEPT !.members =
                 { IF m.project = rq.name /\ m.user = rq.email
                   THEN [ m EXCEPT !.role = rq.role ] ELSE m : m \in @ } ],
             "granted", <<"UpdateProjectMemberUserRole">>, "OK")

\* The requests the handlers are called with: a known and an unknown
\* organization and project, a repository the caller has and has not
\* granted access to, every email, an existing and a missing role.
ProjectRequests ==
  [ org : {OrgName, "nope"}, name : {ProjectName, "ghost"},
    github : GithubURLs \cup {"noaccess"} ]

MemberRequests ==
  [ org : {OrgName}, name : {ProjectName, "ghost"}, email : Emails,
    role : ProjectRoles \cup {"nope"} ]

Admin_GetProject ==
  \E claims \in Callers, rq \in { r \in ProjectRequests : r.github = "repo" },
     fault \in {"none", "FindOrganizationByName", "FindProjectByName", "FindDeployment",
                "NewToken"} :
    Serve(getProject(adminDb, claims, rq, fault))

Admin_CreateProject ==
  \E claims \in Callers, rq \in ProjectRequests,
     fault \in {"none", "FindOrganizationByName", "GetUserGithubInstallation",
                "CreateProject"} :
    Serve(createProject(adminDb, claims, rq, fault))

Admin_DeleteProject ==
  \E claims \in Callers, rq \in { r \in ProjectRequests : r.github = "repo" },
     fault \in {"none", "FindProjectByName", "TeardownProject"} :
    Serve(deleteProject(adminDb, claims, rq, fault))

Admin_UpdateProject ==
  \E claims \in Callers, rq \in ProjectRequests,
     fault \in {"none", "FindProjectByName", "GetUserGithubInstallation", "UpdateProject"} :
    Serve(updateProject(adminDb, claims, rq, fault))

Admin_AddProjectMember ==
  \E claims \in Callers, rq \in MemberRequests,
     fault \in {"none", "FindProjectByName", "FindUserByEmail", "CreateOrUpdateUser",
                "FindProjectRole", "InsertProjectMemberUser"} :
    Serve(addProjectMember(adminDb, claims, rq, fault))

Admin_RemoveProjectMember ==
  \E claims \in Callers, rq \in { r \in MemberRequests : r.role = "admin" },
     fault \in {"none", "FindProjectByName", "FindUserByEmail", "DeleteProjectMemberUser"} :
    Serve(removeProjectMember(adminDb, claims, rq, fault))

Admin_SetProjectMemberRole ==
  \E claims \in Callers, rq \in MemberRequests,
     fault \in {"none", "FindProjectByName", "FindUserByEmail", "FindProjectRole",
                "UpdateProjectMemberUserRole"} :
    Serve(setProjectMemberRole(adminDb, claims, rq, fault))

NextAdmin ==
  \/ Admin_GetProject
  \/ Admin_CreateProject
  \/ Admin_DeleteProject
  \/ Admin_UpdateProject
  \/ Admin_AddProjectMember
  \/ Admin_RemoveProjectMember
  \/ Admin_SetProjectMemberRole

SpecAdmin == InitAdmin /\ [][NextAdmin]_vars

\* ------------------------------------------------- static provisioner
\* The provisioner's test fixes its interface: a staticSpec of runtimes
\* (host, configured slots, region), the deployments table it reads, and
\* the allocation or error Provision returns.

Hosts == {"host_1", "host_2", "host_3"}

Regions == {"us-east-1", "us-east-2"}

staticRuntime(host, slots, region) == [ Host |-> host, Slots |-> slots, Region |-> region ]

\* The two specs of the test table.
staticSpecs ==
  { << staticRuntime("host_1", 6, "us-east-1"), staticRuntime("host_2", 6, "us-east-1"),
       staticRuntime("host_3", 6, "us-east-1") >>,
    << staticRuntime("host_1", 6, "us-east-1"), staticRuntime("host_2", 6, "us-east-2") >> }

\* The deployments the test inserts before it provisions.
insertedDeployments ==
  << [ RuntimeHost |-> "host_1", Slots |-> 2 ], [ RuntimeHost |-> "host_2", Slots |-> 5 ],
     [ RuntimeHost |-> "host_3", Slots |-> 4 ] >>

\* The slot counts the test asks for.
RequestedSlots == {1, 4, 5}

ProvisionOptions == [ Slots : RequestedSlots, Region : Regions ]

\* The deployments recorded in one run.
MaxDeployments == 4

RECURSIVE slotsUsed(_, _)
\* The sum of the slots of the deployments recorded on a host.
slotsUsed(table, host) ==
  IF table = <<>> THEN 0
  ELSE (IF Head(table).RuntimeHost = host THEN Head(table).Slots ELSE 0)
         + slotsUsed(Tail(table), host)

\* Allocation for a number of slots on a host: one CPU, 2 GB of memory
\* and 5 GB of storage (StorageBytes counted in GB) per slot.
Allocation(host, slots) ==
  [ Host |-> host, CPU |-> slots, MemoryGB |-> 2 * slots, StorageBytes |-> slots * 5 ]

\* Variant: the slots already taken on a host are not subtracted.
applicable_ignoreUsed(spec, table, o) ==
  { i \in 1..Len(spec) : spec[i].Region = o.Region /\ spec[i].Slots >= o.Slots }

\* The runtimes of the spec a request can be placed on.
applicable(spec, table, o) ==
  { i \in 1..Len(spec) :
      /\ spec[i].Region = o.Region
      /\ spec[i].Slots - slotsUsed(table, spec[i].Host) >= o.Slots }

\* staticProvisioner.Provision: the results it may return, an
\* allocation on any applicable runtime, or an error and no allocation.
Provision(spec, table, o) ==
  IF applicable(spec, table, o) = {}
  THEN { [ alloc |-> <<>>, err |-> TRUE ] }
  ELSE { [ alloc |-> << Allocation(spec[i].Host, o.Slots) >>, err |-> FALSE ] :
           i \in applicable(spec, table, o) }

\* compareAllocation(got, want): want.Host = "" leaves the host free.
compareAllocation(got, want) ==
  /\ (got # <<>>) = (want # <<>>)
  /\ got # <<>> =>
       /\ (want[1].Host # "" => want[1].Host = got[1].Host)
       /\ got[1].CPU = want[1].CPU
       /\ got[1].MemoryGB = want[1].MemoryGB
       /\ got[1].StorageBytes = want[1].StorageBytes

InitProvisioner ==
  /\ ResolveIdle
  /\ PivotsIdle
  /\ AdminIdle
  /\ deployments \in {<<>>, insertedDeployments}
  /\ provision = <<>>

\* p.Provision(ctx, opts) on a provisioner built from a spec and the
\* database.
Provisioner_Provision ==
  \E spec \in staticSpecs, o \in ProvisionOptions :
    \E result \in Provision(spec, deployments, o) :
      /\ provision' = << [ spec |-> spec, opts |-> o, seen |-> deployments,
                           alloc |-> result.alloc, err |-> result.err,
                           inserted |-> FALSE ] >>
      /\ UNCHANGED <<deployments, resolveVars, pivotVars, adminVars>>

\* db.InsertDeployment for the allocation just provisioned.
Provisioner_InsertDeployment ==
  /\ provision # <<>>
  /\ provision[1].alloc # <<>>
  /\ ~provision[1].inserted
  /\ Len(deployments) < MaxDeployments
  /\ deployments' = Append(deployments, [ RuntimeHost |-> provision[1].alloc[1].Host,
                                          Slots |-> provision[1].opts.Slots ])
  /\ provision' = << [ provision[1] EXCEPT !.inserted = TRUE ] >>
  /\ UNCHANGED <<resolveVars, pivotVars, adminVars>>

NextProvisioner ==
  \/ Provisioner_Provision
  \/ Provisioner_InsertDeployment

SpecProvisioner == InitProvisioner /\ [][NextProvisioner]_vars

\* ------------------------------------------------------------ claims

\* The cell budget in rows for the request: floor(maxPivotCells / cols()).
RowBudget == maxPivotCells \div cols(q)

IsStmt(i, kind, db) == stmts[i].kind = kind /\ stmts[i].db = db

Issued(kind, db) == \E i \in 1..Len(stmts) : IsStmt(i, kind, db)

\* C1: on the native path, once CREATE TEMPORARY TABLE has succeeded the
\* temporary table is dropped before Resolve returns, on every exit path.
\* Stated as: no final state has the temporary table present.
C1_TempTableDropped ==
  pc = "done" => native.table = "absent"

\* C2: on the manual path, pivotDruid aborts with the cell-limit error as
\* soon as the rows appended to the local table exceed
\* floor(maxPivotCells / cols()), whatever the batch size, and the PIVOT
\* query never runs over a local table holding more rows than that.
C2_BudgetEnforcedWhileStreaming ==
  /\ (druid.appended > 0 /\ druid.appended > RowBudget)
       => (pc = "done" /\ err = ErrCellsDruid)
  /\ (Issued("pivot", "local") => druid.flushed <= RowBudget)

\* C3: every failure of an execution-phase step makes Resolve return a
\* non-nil error.
C3_FailureReturnsError ==
  (pc = "done" /\ failed # "") => err # ErrNil

\* C4: on the native path, whenever the count probe has delivered its
\* count, Resolve fails with the cell-limit error if and only if the base
\* aggregation yields more than floor(maxPivotCells / cols()) rows without
\* the pivot limit; the cell-limit error is never returned otherwise.
C4_CellLimitIffOverflow ==
  /\ (pc = "done" /\ native.probed)
       => (err = ErrCellsNative <=> base.N > RowBudget)
  /\ (err = ErrCellsNative => (native.probed /\ base.N > RowBudget))

\* C4 witness: the base aggregation yields two rows more than the budget,
\* the LIMIT cuts the table to budget + 1 rows, and the probe reports it.
C4_Witness ==
  /\ pc = "done"
  /\ native.probed
  /\ base.N = RowBudget + 2
  /\ native.count = RowBudget + 1
  /\ err = ErrCellsNative

\* C5: on the manual path, when pivotDruid has returned the local
\* instance it opened is closed and the temporary table created in it is
\* gone, on every exit path.
C5_LocalInstanceTornDown ==
  pc = "done" => (druid.db \in {"none", "closed"} /\ druid.table = "absent")

\* C5 witness: pivotDruid created the local table, streamed rows into it,
\* returned, and the table was dropped and the instance closed.
C5_Witness ==
  /\ pc = "done"
  /\ Issued("create", "local")
  /\ Issued("drop", "local")
  /\ druid.appended > 0
  /\ druid.db = "closed"

\* C6: when the caller's context is cancelled after the pivot temporary
\* table was created, the drop is still executed, under a context that is
\* not the cancelled one.
C6_DropSurvivesCancel ==
  (pc = "done" /\ ctx.withTable)
    => \E i \in 1..Len(stmts) :
         stmts[i].kind = "drop" /\ stmts[i].ctx \in {"ensuredCtx", "background"}

\* C7: when Resolve returns a validation error, no statement has been
\* sent to a backend and no temporary table or local instance exists or
\* was created.
C7_ValidationBeforeExecution ==
  (pc = "done" /\ err \in ValidationErrors)
    => /\ stmts = <<>>
       /\ native.table = "absent"
       /\ druid.db = "none"
       /\ druid.table = "absent"

\* C7 witness: Resolve returned the builtin-measure argument error.
C7_Witness ==
  /\ pc = "done"
  /\ err \in {ErrBuiltinArgs, ErrBuiltinEmpty}
  /\ stmts = <<>>

\* The row-filter conjunct occurs in a WHERE clause, parenthesised and
\* behind an AND.
HasRowFilter(where, f) ==
  /\ Len(where) >= 2
  /\ where[1] = "WHERE"
  /\ \E i \in 1..Len(where) :
       i + 3 <= Len(where) /\ SubSeq(where, i, i + 3) = <<"AND", "(", f, ")">>

C9_PivotOffsetRejected ==
  /\ (Len(q.PivotOn) > 0 /\ q.Offset # 0)
       => /\ buildMetricsAggregationSQL(q, mv, dialect, policy).err # ErrNil
          /\ sqlString.sql = NoSQL
  /\ \A i \in 1..Len(stmts) : stmts[i].kind = "pivot" => stmts[i].offset = <<0>>

\* C9 witness: Resolve rejected a pivot request with a nonzero offset.
C9_Witness ==
  /\ pc = "done"
  /\ Len(q.PivotOn) > 0
  /\ q.Offset # 0
  /\ err = ErrOffsetPivot

\* C10: for a request with a pivot axis the base aggregation carries
\* LIMIT floor(maxPivotCells / cols()) + 1 whatever the request's own
\* limit is; the request's own limit (0 read as 100) is the LIMIT of the
\* PIVOT query only.
C10_PivotBaseLimit ==
  \A i \in 1..Len(stmts) :
    /\ (Len(q.PivotOn) > 0 /\ stmts[i].db = "olap" /\ stmts[i].kind \in {"create", "execute"})
         => stmts[i].limit = <<RowBudget + 1>>
    /\ stmts[i].kind = "pivot" => stmts[i].limit = normalizeLimit(req.Limit)

\* C10 witness: a pivot request with its own limit of 2 has run its PIVOT
\* query.
C10_Witness ==
  /\ pc = "done"
  /\ req.Limit = <<2>>
  /\ \E i \in 1..Len(stmts) : stmts[i].kind = "pivot" /\ stmts[i].limit = <<2>>


\* The base query has been compiled.
Compiled == sqlString.sql # NoSQL

\* C11: for a request without a pivot axis, an explicit limit of 0 is
\* normalised to 100 and compiled as LIMIT 100; a request with no limit
\* gets no LIMIT clause; any other explicit limit is emitted unchanged.
C11_LimitNormalized ==
  (Compiled /\ Len(q.PivotOn) = 0)
    => /\ req.Limit = <<>> => sqlString.sql.limit = <<>>
       /\ req.Limit = <<0>> => (sqlString.sql.limit = <<100>> /\ q.Limit = <<100>>)
       /\ (req.Limit # <<>> /\ req.Limit # <<0>>) => sqlString.sql.limit = req.Limit
       /\ \A i \in 1..Len(stmts) :
            stmts[i].kind = "query" => stmts[i].limit = sqlString.sql.limit

\* C11 witness: a request without pivot axis and with limit 0 has run its
\* query with LIMIT 100.
C11_Witness ==
  /\ pc = "done"
  /\ Len(q.PivotOn) = 0
  /\ req.Limit = <<0>>
  /\ \E i \in 1..Len(stmts) : stmts[i].kind = "query" /\ stmts[i].limit = <<100>>

\* A SELECT entry is the entry of dimension d: the quoted name of a plain
\* dimension, or a time-bucket expression aliased to the quoted name.
IsEntryOf(entry, d) ==
  /\ Len(entry) >= 3
  /\ SubSeq(entry, Len(entry) - 2, Len(entry)) = safeName(d.Name)
  /\ (d.TimeGrain = TimeGrainUnspecified <=> Len(entry) = 3)

\* C12: the GROUP BY list has exactly one ordinal per requested dimension,
\* in request order, each the 1-based position of that dimension's entry
\* in the SELECT list; no ordinal points at a measure's entry and there is
\* no GROUP BY without dimensions.
C12_GroupByOrdinals ==
  Compiled
    => LET g == sqlString.sql.group
           sel == sqlString.sql.selectCols
       IN  /\ Len(g) = Len(q.Dimensions)
           /\ Len(sel) = cols(q)
           /\ \A i \in 1..Len(g) :
                /\ g[i] \in 1..Len(sel)
                /\ IsEntryOf(sel[g[i]], q.Dimensions[i])
                /\ g[i] <= Len(q.Dimensions)
           /\ \A i, j \in 1..Len(g) : i < j => g[i] < g[j]

\* C12 witness: a query over a time-bucketed dimension, a plain one and
\* another time-bucketed one, with a measure, has been compiled.
C12_Witness ==
  /\ Compiled
  /\ Len(q.Dimensions) = 3
  /\ Len(q.Measures) = 1
  /\ q.Dimensions[1].TimeGrain # TimeGrainUnspecified
  /\ sqlString.sql.group = <<1, 2, 3>>


\* The number of ? placeholders a token of the SQL text holds: the bare
\* placeholder, or a compiled condition with its one placeholder.
PlaceholdersIn(tok) == IF tok \in {"?", WhereCond, HavingCond} THEN 1 ELSE 0

RECURSIVE Placeholders(_)
Placeholders(tokens) ==
  IF tokens = <<>> THEN 0
  ELSE PlaceholdersIn(Head(tokens)) + Placeholders(Tail(tokens))

\* For every placeholder of a clause, read left to right, what it stands
\* for: a time bucket's timezone, a bound of the time range, a value of
\* the WHERE or of the HAVING expression.
RECURSIVE OwnerKinds(_, _)
OwnerKinds(tokens, clause) ==
  IF tokens = <<>> THEN <<>>
  ELSE LET kind == IF clause = "select" THEN "bucket"
                   ELSE IF clause = "having" THEN "having"
                   ELSE IF Head(tokens) = "?" THEN "range" ELSE "where"
       IN  (IF PlaceholdersIn(Head(tokens)) = 1 THEN <<kind>> ELSE <<>>)
             \o OwnerKinds(Tail(tokens), clause)

\* The placeholders of the compiled text in the order of the text:
\* SELECT list, WHERE clause, HAVING clause.
TextOwners ==
  OwnerKinds(sqlString.sql.select, "select")
    \o OwnerKinds(sqlString.sql.where, "where")
    \o OwnerKinds(sqlString.sql.having, "having")

\* The timezones the placeholders of the SELECT entries from..Len stand
\* for, entry by entry.
RECURSIVE BucketValues(_)
BucketValues(from) ==
  IF from > Len(q.Dimensions) THEN <<>>
  ELSE [ k \in 1..Placeholders(sqlString.sql.selectCols[from]) |->
           q.Dimensions[from].TimeZone ]
         \o BucketValues(from + 1)

\* The values the request supplies for the placeholders of one kind.
ValuesOf(kind) ==
  CASE kind = "bucket" -> BucketValues(1)
    [] kind = "range" -> IF q.TimeRange = <<>> THEN <<>>
                         ELSE <<q.TimeRange[1].start, q.TimeRange[1].end>>
    [] kind = "where" -> IF q.Where = <<>> THEN <<>> ELSE q.Where[1].args
    [] kind = "having" -> IF q.Having = <<>> THEN <<>> ELSE q.Having[1].args

\* The argument the i-th placeholder of the text must be bound to.
Expected(i) ==
  LET kind == TextOwners[i]
      j == Cardinality({ m \in 1..i : TextOwners[m] = kind })
  IN  IF j <= Len(ValuesOf(kind)) THEN ValuesOf(kind)[j] ELSE "unbound"

\* C13: the compiled argument list has one entry per ? placeholder of the
\* SQL text and its i-th entry is the value of the i-th placeholder read
\* left to right: timezones of the time buckets in request order, then
\* the time range's bounds, then the WHERE values, then the HAVING values.
C13_ArgsAlignedWithPlaceholders ==
  Compiled
    => /\ Len(sqlString.args) = Len(TextOwners)
       /\ \A i \in 1..Len(TextOwners) :
            i <= Len(sqlString.args) => sqlString.args[i] = Expected(i)

\* C13 witness: a compiled query whose text holds time-bucket, time-range,
\* WHERE and HAVING placeholders, eight in all.
C13_Witness ==
  /\ Compiled
  /\ q.Where # <<>> /\ q.Having # <<>> /\ q.TimeRange # <<>>
  /\ Len(TextOwners) = 8
  /\ { TextOwners[i] : i \in 1..Len(TextOwners) } = {"bucket", "range", "where", "having"}

\* The token v occurs in a token sequence.
Occurs(v, tokens) == \E i \in 1..Len(tokens) : tokens[i] = v

\* How often v occurs in a sequence.
Count(v, seq) == Cardinality({ i \in 1..Len(seq) : seq[i] = v })

\* The placeholders of the time buckets whose dimension asks for zone tz.
RECURSIVE BucketPlaceholders(_, _)
BucketPlaceholders(tz, from) ==
  IF from > Len(q.Dimensions) THEN 0
  ELSE (IF q.Dimensions[from].TimeZone = tz
        THEN Placeholders(sqlString.sql.selectCols[from]) ELSE 0)
         + BucketPlaceholders(tz, from + 1)

\* C14: no requested timezone occurs in the compiled SQL text; the bucket
\* of a dimension with an empty or "UTC" timezone is a plain date_trunc
\* call without placeholder or argument, and any other timezone occurs
\* in the argument list exactly once per placeholder of its buckets.
C14_TimezoneOnlyInArgs ==
  Compiled
    => \A i \in 1..Len(q.Dimensions) :
         LET d == q.Dimensions[i]
             entry == sqlString.sql.selectCols[i]
         IN  d.TimeGrain # TimeGrainUnspecified
               => /\ ~Occurs(d.TimeZone, sqlString.sql.select)
                  /\ ~Occurs(d.TimeZone, sqlString.sql.where)
                  /\ ~Occurs(d.TimeZone, sqlString.sql.having)
                  /\ d.TimeZone \in {"", "UTC"}
                       => /\ Head(entry) = "date_trunc"
                          /\ Placeholders(entry) = 0
                          /\ Count(d.TimeZone, sqlString.args) = 0
                  /\ d.TimeZone \notin {"", "UTC"}
                       => /\ Placeholders(entry) >= 1
                          /\ Count(d.TimeZone, sqlString.args)
                               = BucketPlaceholders(d.TimeZone, 1)

\* C14 witness: a DuckDB query with two time buckets in different
\* non-UTC zones has been compiled, each zone bound twice.
C14_Witness ==
  /\ Compiled
  /\ dialect = DialectDuckDB
  /\ Count("Asia/Kolkata", sqlString.args) = 2
  /\ Count("Europe/Berlin", sqlString.args) = 2

\* The nesting depth after each prefix of a token sequence, or -1 from
\* the first prefix on that closes more than it opened.
RECURSIVE Depth(_, _)
Depth(tokens, d) ==
  IF d < 0 THEN -1
  ELSE IF tokens = <<>> THEN d
  ELSE Depth(Tail(tokens),
             IF Head(tokens) = "(" THEN d + 1
             ELSE IF Head(tokens) = ")" THEN d - 1 ELSE d)

Balanced(tokens) == Depth(tokens, 0) = 0

\* C15: the time-bucket expression of every time-bucketed dimension of a
\* compiled query has balanced parentheses, on DuckDB and on Druid, for
\* an empty, a UTC and any other timezone.
C15_TimeBucketBalanced ==
  Compiled
    => \A i \in 1..Len(q.Dimensions) :
         q.Dimensions[i].TimeGrain # TimeGrainUnspecified
           => Balanced(sqlString.sql.selectCols[i])


\* Resolve has returned after it had acquired the OLAP handle.
ReturnedPastOLAP == pc = "done" /\ failed # "olap"

\* C16: a request with a time range against a view whose time dimension
\* is empty ends in an error (the missing-time-dimension error once the
\* handle is acquired and the dialect accepted, with nothing compiled or
\* issued); that error is returned for no other request.
C16_TimeRangeNeedsTimeDimension ==
  /\ (pc = "done" /\ req.TimeRange # <<>> /\ mv.TimeDimension = "")
       => err # ErrNil
  /\ (ReturnedPastOLAP /\ req.TimeRange # <<>> /\ mv.TimeDimension = ""
        /\ dialect \in {DialectDuckDB, DialectDruid})
       => (err = ErrNoTimeDim /\ ~Compiled /\ stmts = <<>>)
  /\ err = ErrNoTimeDim => (req.TimeRange # <<>> /\ mv.TimeDimension = "")

\* C16 witness: a request with a time range was rejected for the view's
\* missing time dimension.
C16_Witness ==
  /\ pc = "done"
  /\ err = ErrNoTimeDim
  /\ req.TimeRange # <<>>

\* C17: with both a legacy Filter and a Where the request ends in an error
\* and Where is what the caller set; with only a Filter, the query is
\* compiled from a Where that is the converted filter, whose condition
\* appears once in the WHERE clause with its arguments bound.
C17_FilterOrWhere ==
  /\ (pc = "done" /\ req.Filter # <<>> /\ req.Where # <<>>)
       => (err # ErrNil /\ q.Where = req.Where /\ ~Compiled)
  /\ (ReturnedPastOLAP /\ req.Filter # <<>> /\ req.Where # <<>>
        /\ (req.TimeRange = <<>> \/ mv.TimeDimension # ""))
       => err = ErrFilterAndWhere
  /\ err = ErrFilterAndWhere => (req.Filter # <<>> /\ req.Where # <<>>)
  /\ (Compiled /\ req.Filter # <<>>)
       => /\ req.Where = <<>>
          /\ q.Where = << [ cond |-> req.Filter[1].cond,
                            args |-> req.Filter[1].args, ok |-> TRUE ] >>
          /\ Count(req.Filter[1].cond, sqlString.sql.where) = 1
          /\ \A i \in 1..Len(req.Filter[1].args) :
               Count(req.Filter[1].args[i], sqlString.args) = 1

\* C17 witness: a request with only a legacy filter has been compiled.
C17_Witness ==
  /\ Compiled
  /\ req.Filter # <<>>
  /\ req.Where = <<>>
  /\ q.Where # <<>>

\* C18: on a dialect other than DuckDB and Druid nothing is ever compiled
\* or issued, and Resolve, once it holds the OLAP handle, returns the
\* dialect error with the handle released and no Result set.
C18_UnsupportedDialect ==
  dialect \notin {DialectDuckDB, DialectDruid}
    => /\ ~Compiled
       /\ stmts = <<>>
       /\ q.Result = <<>>
       /\ ReturnedPastOLAP => (err = ErrDialect /\ olap = "released")

\* C18 witness: Resolve has returned the dialect error.
C18_Witness ==
  /\ pc = "done"
  /\ dialect = DialectOther
  /\ err = ErrDialect
  /\ olap = "released"

\* C20: every statement sent to the OLAP backend for the request (base
\* query, CREATE TEMPORARY TABLE, count probe, PIVOT query) carries the
\* priority passed to Resolve.
C20_PriorityHonored ==
  \A i \in 1..Len(stmts) :
    (stmts[i].db = "olap"
       /\ stmts[i].kind \in {"query", "execute", "create", "count", "pivot"})
      => stmts[i].priority = priority


\* The file name Export owes the hook for the request as the caller made
\* it: the table's characters with every double quote turned into an
\* underscore, and the suffix when the caller set any constraint.
OwedFilename ==
  LET chars == Chars(mv.Table)
      constrained == req.TimeRange # <<>> \/ req.Where # <<>>
                       \/ req.Having # <<>> \/ req.Filter # <<>>
  IN  [ i \in 1..Len(chars) |-> IF chars[i] = "\"" THEN "_" ELSE chars[i] ]
        \o (IF constrained THEN <<"_filtered">> ELSE <<>>)

\* C19: Export calls the pre-write hook at most once, only after Resolve
\* returned without error and while nothing is written, with the table
\* name (quotes as underscores) suffixed _filtered exactly when the
\* request had a time range, WHERE, HAVING or legacy filter; an encoder
\* runs only after a set hook was called and succeeded, and after an
\* error of Resolve or of the hook no encoder has run and nothing is
\* written.
C19_ExportHook ==
  opts # <<>>
    => /\ Len(export.hookCalls) <= 1
       /\ opts[1].PreWriteHook = "nil" => export.hookCalls = <<>>
       /\ \A i \in 1..Len(export.hookCalls) :
            /\ pc = "done" /\ err = ErrNil
            /\ ~export.hookCalls[i].written
            /\ export.hookCalls[i].name = OwedFilename
       /\ (export.written \/ export.encoder # "none")
            => /\ pc = "done" /\ err = ErrNil
               /\ opts[1].PreWriteHook # "nil" => Len(export.hookCalls) = 1
               /\ export.err # ErrHook
       /\ (export.pc = "done" /\ (err # ErrNil \/ export.err = ErrHook))
            => (~export.written /\ export.encoder = "none")

\* C19 witness: an export of a request with only a legacy filter, on a
\* table with a quote in its name, has called the hook and then written.
C19_Witness ==
  /\ opts # <<>>
  /\ export.pc = "done"
  /\ export.written
  /\ Len(export.hookCalls) = 1
  /\ mv.Table = QuotedTable
  /\ req.Filter # <<>> /\ req.Where = <<>> /\ req.TimeRange = <<>> /\ req.Having = <<>>


\* 1 when the condition holds, else 0.
One(b) == IF b THEN 1 ELSE 0

\* C22: the compiled SQL has a WHERE clause, opened by the 1=1 sentinel,
\* exactly when the time-range predicate, the compiled WHERE expression or
\* the row filter is non-empty; a WHERE expression compiling to nothing
\* adds no conjunct and lets rows through whatever the condition says of
\* them, and a HAVING expression compiling to nothing adds no HAVING.
C22_WhereSentinel ==
  Compiled
    => LET timePred == mv.TimeDimension # "" /\ q.TimeRange # <<>>
           whereFrag == q.Where # <<>> /\ q.Where[1].cond # ""
           rowFilter == policy # <<>> /\ policy[1].RowFilter # ""
           havingFrag == q.Having # <<>> /\ q.Having[1].cond # ""
           w == sqlString.sql.where
           cs == IF w = <<>> THEN <<>> ELSE Conjuncts(Tail(w), <<>>)
       IN  /\ w # <<>> <=> (timePred \/ whereFrag \/ rowFilter)
           /\ w # <<>> => (Len(w) > 2 /\ SubSeq(w, 1, 2) = <<"WHERE", "1=1">>)
           /\ \A i \in 1..Len(cs) : cs[i] # <<>>
           /\ w # <<>> => Len(cs) = 1 + 2 * One(timePred) + One(whereFrag) + One(rowFilter)
           /\ ~whereFrag
                => \A c \in RowClasses :
                     c \in Admits(w) <=> [ c EXCEPT !.w = ~c.w ] \in Admits(w)
           /\ havingFrag <=> sqlString.sql.having # <<>>
           /\ havingFrag => Head(sqlString.sql.having) = "HAVING"

\* C22 witness: a query with a time range and with WHERE and HAVING
\* expressions that compile to nothing has been compiled.
C22_Witness ==
  /\ Compiled
  /\ q.TimeRange # <<>>
  /\ q.Where = <<EmptyExpression>>
  /\ q.Having = <<EmptyExpression>>
  /\ sqlString.sql.where # <<>>


\* Statement i of the log is preceded by a statement of that kind on db.
Preceded(i, kind, db) == \E k \in 1..(i - 1) : IsStmt(k, kind, db)

\* C24: on the native path the count probe is issued after CREATE
\* TEMPORARY TABLE has succeeded and the PIVOT query after the probe has;
\* no PIVOT query is issued when the probe reported more rows than the
\* cell budget or after a step failed.  On the manual path the PIVOT
\* query is issued only once the remote cursor is drained, its rows
\* flushed, and nothing has failed.
C24_StepsOrdered ==
  \A i \in 1..Len(stmts) :
    /\ IsStmt(i, "count", "olap")
         => (Preceded(i, "create", "olap") /\ ~Preceded(i, "count", "olap"))
    /\ IsStmt(i, "pivot", "olap")
         => /\ \E k \in 1..(i - 1) : IsStmt(k, "count", "olap") /\ Preceded(k, "create", "olap")
            /\ ~Preceded(i, "pivot", "olap")
            /\ ~(native.probed /\ native.count > RowBudget)
            /\ failed \in {"", "pivot query"}
            /\ err # ErrCellsNative
    /\ IsStmt(i, "pivot", "local")
         => /\ Preceded(i, "execute", "olap")
            /\ Preceded(i, "create", "local")
            /\ ~Preceded(i, "pivot", "local")
            /\ druid.cursor = 0
            /\ druid.buffered = 0
            /\ failed \in {"", "pivot query"}

\* C24 witness: a native pivot has run CREATE, probe and PIVOT in that
\* order and returned its result.
C24_Witness ==
  /\ pc = "done"
  /\ err = ErrNil
  /\ dialect = DialectDuckDB
  /\ native.probed
  /\ \E i \in 1..Len(stmts) : IsStmt(i, "pivot", "olap")


\* C25: whenever Resolve has returned nil the request's Result is set,
\* on the non-pivot, the native and the manual path; Export never reads a
\* nil Result.
C25_ResultSetOnSuccess ==
  /\ (pc = "done" /\ err = ErrNil) => q.Result # <<>>
  /\ export.pc # "panic"


\* C26: in the streaming loop the rows appended are the rows read so far,
\* each once and in cursor order; at most batchSize rows are appended but
\* unflushed; when the loop has ended without error every appended row is
\* flushed and the local table holds as many rows as the cursor delivered
\* when the PIVOT query runs.
C26_BatchedAppend ==
  /\ druid.rowsAppended = [ i \in 1..druid.appended |-> i ]
  /\ druid.buffered <= batchSize
  /\ druid.flushed + druid.buffered = druid.appended
  /\ pc = "d_loop" => druid.appended = cursorRows - druid.cursor
  /\ (pc = "d_pivot" \/ Issued("pivot", "local"))
       => /\ druid.buffered = 0
          /\ druid.flushed = cursorRows
          /\ druid.rowsAppended = [ i \in 1..cursorRows |-> i ]

\* C26 witness: the loop has streamed more rows than one batch and a
\* remainder, and the PIVOT query is about to run over all of them.
C26_Witness ==
  /\ pc = "d_pivot"
  /\ druid.flushed > batchSize
  /\ druid.flushed % batchSize # 0
  /\ druid.flushed = cursorRows


\* C21: however concurrent manual pivots interleave, each call past its
\* connect holds an instance no other call holds or has used, an instance
\* holds at most one temporary table, and the instance of a call that
\* has ended is closed and holds no table.
C21_PrivateInstance ==
  /\ \A p, r \in PivotIds :
       (p # r /\ pivotOps[p].db # 0) => pivotOps[p].db # pivotOps[r].db
  /\ \A p \in PivotIds :
       /\ pivotOps[p].pc \in {"create", "stream", "pivot"}
            => (pivotOps[p].db \in 1..Len(instances) /\ instances[pivotOps[p].db].open)
       /\ pivotOps[p].db # 0 => instances[pivotOps[p].db].usedBy \subseteq {p}
       /\ (pivotOps[p].pc = "done" /\ pivotOps[p].db # 0)
            => (~instances[pivotOps[p].db].open /\ instances[pivotOps[p].db].tables = {})
  /\ \A id \in 1..Len(instances) :
       /\ Cardinality(instances[id].usedBy) <= 1
       /\ Cardinality(instances[id].tables) <= 1
       /\ instances[id].open => \E p \in PivotIds : pivotOps[p].db = id

\* C21 witness: two calls stream at the same time, each into the table of
\* its own open instance.
C21_Witness ==
  /\ pivotOps[1].pc = "pivot" /\ pivotOps[2].pc = "pivot"
  /\ pivotOps[1].db # pivotOps[2].db
  /\ instances[pivotOps[1].db].tables = {tempName(1)}
  /\ instances[pivotOps[2].db].tables = {tempName(2)}

\* The permission each admin project handler asks of the caller's claims:
\* the organization permission or the project permission grants it.
Required ==
  [ GetProject |-> <<{"ReadProjects"}, {"ReadProject"}>>,
    CreateProject |-> <<{"CreateProjects"}, {}>>,
    DeleteProject |-> <<{"ManageProjects"}, {"ManageProject"}>>,
    UpdateProject |-> <<{"ManageProjects"}, {"ManageProject"}>>,
    AddProjectMember |-> <<{"ManageOrgMembers"}, {"ManageProjectMembers"}>>,
    RemoveProjectMember |-> <<{"ManageOrgMembers"}, {"ManageProjectMembers"}>>,
    SetProjectMemberRole |-> <<{"ManageOrgMembers"}, {"ManageProjectMembers"}>> ]

Permitted(call) ==
  \/ Required[call.handler][1] \cap call.claims.org # {}
  \/ Required[call.handler][2] \cap call.claims.proj # {}

StateChanging ==
  { "CreateProject", "TeardownProject", "UpdateProject", "CreateOrUpdateUser",
    "InsertProjectMemberUser", "DeleteProjectMemberUser", "UpdateProjectMemberUserRole" }

\* C27: an admin project handler performs a state-changing operation or
\* issues a JWT only after its permission check on the caller's claims
\* has returned true in the same request, and a request whose permission
\* check fails (or whose caller lacks the permission) leaves the
\* database as it found it.
C27_PermissionBeforeEffect ==
  lastCall # <<>> =>
    LET call == lastCall[1] IN
      /\ ((\E i \in 1..Len(call.ops) : call.ops[i] \in StateChanging) \/ call.jwt = "issued")
            => (call.checked = "granted" /\ Permitted(call))
      /\ (call.checked = "denied" \/ ~Permitted(call))
            => (adminDb = call.db /\ call.ops = <<>> /\ call.jwt # "issued")
      /\ adminDb # call.db => call.ops # <<>>

\* C27 witness: a caller holding the permission was served a teardown
\* of an existing project, which left the database without it.
C27_Witness ==
  /\ lastCall # <<>>
  /\ lastCall[1].handler = "DeleteProject"
  /\ lastCall[1].checked = "granted"
  /\ lastCall[1].ops = <<"TeardownProject">>
  /\ lastCall[1].db.projects # {}
  /\ adminDb.projects = {}

\* C28: when AddProjectMember returns an error the database is
\* unchanged: no user was created for the email and no membership added.
C28_ErrorLeavesDatabase ==
  (lastCall # <<>> /\ lastCall[1].handler = "AddProjectMember" /\ lastCall[1].code # "OK")
    => adminDb = lastCall[1].db

====
